---- MODULE Spec2Model ----
(***************************************************************************)
(* Model of the dashboard query extractor (get_dashboard_queries) of       *)
(* src/tools/dashboard-tools.ts: the table-id collection, the metadata     *)
(* fetch loop, the field lookup, resolveFieldRef / resolveMbql, the        *)
(* per-card summaries and the tables_used list.                            *)
(*                                                                         *)
(* JavaScript values are tagged records: k is the kind of the value, v its *)
(* payload.  An object's payload is a function from its keys to values, an *)
(* array's payload is a sequence of values.                                *)
(***************************************************************************)
EXTENDS Integers, Sequences, FiniteSets, TLC

VARIABLES
    pc,             \* position of the handler: idle, getDashboard, getTableQueryMetadata, done
    args,           \* the arguments of the running call
    dashboard,      \* the value getDashboard resolved with
    tableIds,       \* the Set<number> of line 1146, in insertion order
    pending,        \* the part of tableIds the for-of loop has not visited yet
    tableMetadata,  \* Record<number, any> of line 1164
    tableNames,     \* Record<number, string> of line 1165
    fieldLookup,    \* Record<number, {name, table}> of line 1180
    fetchLog,       \* the table ids getTableQueryMetadata was called with, in call order
    fetchErrors,    \* table id -> the error getTableQueryMetadata rejected with
    dashboardError, \* the value getDashboard rejected with, if it did
    result,         \* what the call returned or threw
    ref,            \* the node handed to resolveFieldRef when it is run on its own
    resolved        \* what resolveFieldRef returned for ref

vars == <<pc, args, dashboard, tableIds, pending, tableMetadata, tableNames,
          fieldLookup, fetchLog, fetchErrors, dashboardError, result, ref, resolved>>

-----------------------------------------------------------------------------
(* JavaScript values *)

Undefined == [k |-> "undefined"]
Null == [k |-> "null"]
Bool(b) == [k |-> "boolean", v |-> b]
Num(n) == [k |-> "number", v |-> n]
Str(s) == [k |-> "string", v |-> s]
Arr(s) == [k |-> "array", v |-> s]
Obj(f) == [k |-> "object", v |-> f]

EmptyObject == Obj(<<>>)

\* typeof x
TypeOf(x) ==
    IF x.k \in {"null", "array", "object"} THEN "object" ELSE x.k

\* Array.isArray(x)
IsArray(x) == x.k = "array"

\* ToBoolean(x): what `if (x)`, `x && ...` and `x || ...` test
Truthy(x) ==
    CASE x.k = "undefined" -> FALSE
      [] x.k = "null"      -> FALSE
      [] x.k = "boolean"   -> x.v
      [] x.k = "number"    -> x.v # 0
      [] x.k = "string"    -> x.v # ""
      [] OTHER             -> TRUE

\* x || y
OrElse(x, y) == IF Truthy(x) THEN x ELSE y

\* x[key] for a property name; undefined when x has no such member
Get(x, key) ==
    IF x.k = "object" /\ key \in DOMAIN x.v THEN x.v[key] ELSE Undefined

\* x?.[key]
OptGet(x, key) ==
    IF x.k \in {"undefined", "null"} THEN Undefined ELSE Get(x, key)

\* key in x, for an object or an array x and a property name that is not an index
HasKey(x, key) == x.k = "object" /\ key \in DOMAIN x.v

\* x[i] for a zero-based array index; undefined past the end
At(x, i) ==
    IF x.k = "array" /\ i + 1 \in 1..Len(x.v) THEN x.v[i + 1] ELSE Undefined

\* `${n}` for an integer n
NumberToString(n) == ToString(n)

Range(s) == {s[i] : i \in 1..Len(s)}


\* an add that keeps duplicates, as Array.prototype.push does
SetAddAsPush(s, x) == Append(s, x)

\* Set.prototype.add on a Set kept in insertion order
SetAdd(s, x) == IF x \in Range(s) THEN s ELSE Append(s, x)

\* `${x}` for a string or an integer
TemplateString(x) == IF x.k = "number" THEN NumberToString(x.v) ELSE x.v

\* JSON.stringify, up to layout: object members whose value is undefined are
\* left out and undefined array elements are written as null
RECURSIVE stringify(_)
stringify(x) ==
    CASE x.k = "object" ->
            Obj([key \in {m \in DOMAIN x.v : x.v[m].k # "undefined"} |-> stringify(x.v[key])])
      [] x.k = "array" ->
            Arr([i \in 1..Len(x.v) |->
                    IF x.v[i].k = "undefined" THEN Null ELSE stringify(x.v[i])])
      [] OTHER -> x

-----------------------------------------------------------------------------
(* get_dashboard_queries: table ids, table names, field lookup *)

RECURSIVE addJoinTableIds(_, _, _)

\* a collection that leaves the tables of the joins out
addJoinTableIdsSkipped(ids, joins, i) == ids

\* query.joins.forEach of lines 1155-1159, from join i on
addJoinTableIds(ids, joins, i) ==
    IF i > Len(joins) THEN ids
    ELSE LET st == Get(joins[i], "source-table")
         IN  addJoinTableIds(
                 IF Truthy(st) /\ TypeOf(st) = "number" THEN SetAdd(ids, st.v) ELSE ids,
                 joins, i + 1)

\* the body of dashcards.forEach of lines 1147-1161 for one dashcard
addCardTableIds(ids, dc) ==
    LET card == OrElse(Get(dc, "card"), EmptyObject)
        query == OptGet(Get(card, "dataset_query"), "query")
        st == OptGet(query, "source-table")
        ids1 == IF Truthy(st) /\ TypeOf(st) = "number" THEN SetAdd(ids, st.v) ELSE ids
        joins == OptGet(query, "joins")
    IN  IF Truthy(joins) THEN addJoinTableIds(ids1, joins.v, 1) ELSE ids1

\* lines 1146-1161: the table ids of all dashcards, from dashcard i on
RECURSIVE collectTableIds(_, _, _)
collectTableIds(ids, dashcards, i) ==
    IF i > Len(dashcards) THEN ids
    ELSE collectTableIds(addCardTableIds(ids, dashcards[i]), dashcards, i + 1)

\* a name that puts the separator in front of the table name whatever the schema
qualifiedNameAlwaysDotted(tableId, metadata) ==
    LET schema == OrElse(Get(metadata, "schema"), Str(""))
        tableName == OrElse(Get(metadata, "name"), Str("table_" \o NumberToString(tableId)))
    IN  Str(TemplateString(schema) \o "." \o TemplateString(tableName))

\* lines 1171-1173: the name stored for a table whose metadata was fetched
qualifiedName(tableId, metadata) ==
    LET schema == OrElse(Get(metadata, "schema"), Str(""))
        tableName == OrElse(Get(metadata, "name"), Str("table_" \o NumberToString(tableId)))
    IN  IF Truthy(schema)
        THEN Str(TemplateString(schema) \o "." \o TemplateString(tableName))
        ELSE tableName

\* a placeholder that is the fallback of line 1172
unknownTableNameAsFallback(tableId) == Str("table_" \o NumberToString(tableId))

\* line 1175: the name stored for a table whose fetch failed
unknownTableName(tableId) == Str("unknown_table_" \o NumberToString(tableId))

\* fields.forEach of lines 1184-1186, from field i on
RECURSIVE addFields(_, _, _, _)
addFields(fl, fields, tableName, i) ==
    IF i > Len(fields) THEN fl
    ELSE LET f == fields[i]
             entry == [name |-> Get(f, "name"), table |-> tableName]
         IN  addFields((Get(f, "id").v :> entry) @@ fl, fields, tableName, i + 1)

\* lines 1180-1187: Object.entries visits the integer keys in ascending order
RECURSIVE buildFieldLookup(_, _, _)
buildFieldLookup(fl, tm, tn) ==
    IF DOMAIN tm = {} THEN fl
    ELSE LET tableId == CHOOSE t \in DOMAIN tm : \A u \in DOMAIN tm : t <= u
             fields == OrElse(Get(tm[tableId], "fields"), Arr(<<>>))
             rest == [t \in DOMAIN tm \ {tableId} |-> tm[t]]
         IN  buildFieldLookup(addFields(fl, fields.v, tn[tableId], 1), rest, tn)

-----------------------------------------------------------------------------
(* resolveFieldRef and resolveMbql *)

\* a lookup that takes the table name for the field name
fieldNameFromTable(id, fl) ==
    OrElse(IF id \in DOMAIN fl THEN fl[id].table ELSE Undefined,
           Str("field_" \o NumberToString(id)))

\* lines 1194-1195: fieldInfo?.name || `field_${ref[1]}`
fieldName(id, fl) ==
    OrElse(IF id \in DOMAIN fl THEN fl[id].name ELSE Undefined,
           Str("field_" \o NumberToString(id)))

\* a rewrite that keeps the third slot whenever the node has one
fieldNodeKeepingSlot(r, name) ==
    IF Len(r.v) > 2
    THEN Arr(<<Str("field"), name, At(r, 2)>>)
    ELSE Arr(<<Str("field"), name>>)

\* lines 1197-1200: the rewritten field node, with the options when there are any
fieldNode(r, name) ==
    IF Truthy(At(r, 2)) /\ TypeOf(At(r, 2)) = "object"
    THEN Arr(<<Str("field"), name, At(r, 2)>>)
    ELSE Arr(<<Str("field"), name>>)

RECURSIVE resolveFieldRef(_, _)

\* a resolver that starts with `if (!ref) return null`
resolveFieldRefNullingFalsy(r, fl) ==
    IF ~Truthy(r) THEN Null
    ELSE IF ~IsArray(r) THEN r
    ELSE IF At(r, 0) = Str("field") /\ TypeOf(At(r, 1)) = "number"
    THEN fieldNode(r, fieldName(At(r, 1).v, fl))
    ELSE Arr([i \in 1..Len(r.v) |-> resolveFieldRef(r.v[i], fl)])

\* a resolver that returns a generic array as it is
resolveFieldRefShallow(r, fl) ==
    IF ~IsArray(r) THEN r
    ELSE IF At(r, 0) = Str("field") /\ TypeOf(At(r, 1)) = "number"
    THEN fieldNode(r, fieldName(At(r, 1).v, fl))
    ELSE r

\* a resolver that takes every array that starts with "field" for a field node
resolveFieldRefAnyField(r, fl) ==
    IF ~IsArray(r) THEN r
    ELSE IF At(r, 0) = Str("field")
    THEN fieldNode(r, IF TypeOf(At(r, 1)) = "number"
                      THEN fieldName(At(r, 1).v, fl)
                      ELSE IF TypeOf(At(r, 1)) = "string"
                      THEN Str("field_" \o At(r, 1).v)
                      ELSE Str("field_undefined"))
    ELSE Arr([i \in 1..Len(r.v) |-> resolveFieldRef(r.v[i], fl)])

\* a resolver that renames a field node whose second element is a string again
resolveFieldRefRenamingStrings(r, fl) ==
    IF ~IsArray(r) THEN r
    ELSE IF At(r, 0) = Str("field") /\ TypeOf(At(r, 1)) = "number"
    THEN fieldNode(r, fieldName(At(r, 1).v, fl))
    ELSE IF At(r, 0) = Str("field") /\ TypeOf(At(r, 1)) = "string"
    THEN fieldNode(r, Str("field_" \o At(r, 1).v))
    ELSE Arr([i \in 1..Len(r.v) |-> resolveFieldRef(r.v[i], fl)])

\* lines 1190-1205
resolveFieldRef(r, fl) ==
    IF ~IsArray(r) THEN r
    ELSE IF At(r, 0) = Str("field") /\ TypeOf(At(r, 1)) = "number"
    THEN fieldNode(r, fieldName(At(r, 1).v, fl))
    ELSE Arr([i \in 1..Len(r.v) |-> resolveFieldRef(r.v[i], fl)])

\* x.map((e) => resolveFieldRef(e))
mapResolve(x, fl) == Arr([i \in 1..Len(x.v) |-> resolveFieldRef(x.v[i], fl)])

\* tableNames[id] || `table_${id}` of lines 1215 and 1243
resolveTableName(id, tn) ==
    OrElse(IF id \in DOMAIN tn THEN tn[id] ELSE Undefined,
           Str("table_" \o NumberToString(id)))

\* a join whose own members are spread after the resolved ones
resolveJoinSpreadLast(j, tn, fl) ==
    LET st == Get(j, "source-table")
    IN  Obj(j.v
            @@ ("source-table" :> (IF TypeOf(st) = "number" THEN resolveTableName(st.v, tn) ELSE st))
            @@ ("condition" :> resolveFieldRef(Get(j, "condition"), fl)))

\* lines 1240-1246: one element of query.joins.map
resolveJoin(j, tn, fl) ==
    LET st == Get(j, "source-table")
    IN  Obj(("source-table" :> (IF TypeOf(st) = "number" THEN resolveTableName(st.v, tn) ELSE st))
            @@ ("condition" :> resolveFieldRef(Get(j, "condition"), fl))
            @@ j.v)

\* one member of `resolved`, or no member
Member(present, key, value) == IF present THEN key :> value ELSE <<>>

\* a resolveMbql that starts from a copy of the query: const resolved = {...query}
resolveMbqlSpreadingQuery(query, tn, fl) ==
    IF ~Truthy(query) THEN query
    ELSE LET st == Get(query, "source-table")
             aggregation == Get(query, "aggregation")
             breakout == Get(query, "breakout")
             filter == Get(query, "filter")
             orderBy == Get(query, "order-by")
             joins == Get(query, "joins")
             fields == Get(query, "fields")
             limit == Get(query, "limit")
             expressions == Get(query, "expressions")
         IN  Obj(Member(Truthy(st) /\ TypeOf(st) = "number", "source-table",
                        resolveTableName(st.v, tn))
                 @@ Member(Truthy(aggregation), "aggregation", mapResolve(aggregation, fl))
                 @@ Member(Truthy(breakout), "breakout", mapResolve(breakout, fl))
                 @@ Member(Truthy(filter), "filter", resolveFieldRef(filter, fl))
                 @@ Member(Truthy(orderBy), "order-by", mapResolve(orderBy, fl))
                 @@ Member(Truthy(joins), "joins",
                           Arr([i \in 1..Len(joins.v) |-> resolveJoin(joins.v[i], tn, fl)]))
                 @@ Member(Truthy(fields), "fields", mapResolve(fields, fl))
                 @@ Member(Truthy(limit), "limit", limit)
                 @@ Member(Truthy(expressions), "expressions",
                           Obj([name \in DOMAIN expressions.v |->
                                   resolveFieldRef(expressions.v[name], fl)]))
                 @@ query.v)

\* lines 1208-1264
resolveMbql(query, tn, fl) ==
    IF ~Truthy(query) THEN query
    ELSE LET st == Get(query, "source-table")
             aggregation == Get(query, "aggregation")
             breakout == Get(query, "breakout")
             filter == Get(query, "filter")
             orderBy == Get(query, "order-by")
             joins == Get(query, "joins")
             fields == Get(query, "fields")
             limit == Get(query, "limit")
             expressions == Get(query, "expressions")
         IN  Obj(Member(Truthy(st) /\ TypeOf(st) = "number", "source-table",
                        resolveTableName(st.v, tn))
                 @@ Member(Truthy(aggregation), "aggregation", mapResolve(aggregation, fl))
                 @@ Member(Truthy(breakout), "breakout", mapResolve(breakout, fl))
                 @@ Member(Truthy(filter), "filter", resolveFieldRef(filter, fl))
                 @@ Member(Truthy(orderBy), "order-by", mapResolve(orderBy, fl))
                 @@ Member(Truthy(joins), "joins",
                           Arr([i \in 1..Len(joins.v) |-> resolveJoin(joins.v[i], tn, fl)]))
                 @@ Member(Truthy(fields), "fields", mapResolve(fields, fl))
                 @@ Member(Truthy(limit), "limit", limit)
                 @@ Member(Truthy(expressions), "expressions",
                           Obj([name \in DOMAIN expressions.v |->
                                   resolveFieldRef(expressions.v[name], fl)])))


-----------------------------------------------------------------------------
(* get_dashboard_queries: card summaries and tables_used *)

\* tabs.forEach((t) => { tabLookup[t.id] = t.name; }) of line 1143, from tab i on
RECURSIVE buildTabLookup(_, _, _)
buildTabLookup(tl, tabs, i) ==
    IF i > Len(tabs) THEN tl
    ELSE buildTabLookup((Get(tabs[i], "id").v :> Get(tabs[i], "name")) @@ tl, tabs, i + 1)

\* Object.keys(x) for an object of at most one member
objectKeys(x) ==
    IF DOMAIN x.v = {} THEN Arr(<<>>) ELSE Arr(<<Str(CHOOSE key \in DOMAIN x.v : TRUE)>>)

\* a summary that takes a dashcard for virtual only when it carries no query
cardSummaryByQuery(dc, tabLookup, tn, fl) ==
    LET card == OrElse(Get(dc, "card"), EmptyObject)
        datasetQuery == OrElse(Get(card, "dataset_query"), EmptyObject)
        tabId == Get(dc, "dashboard_tab_id")
        tabName == IF Truthy(tabId)
                   THEN (IF tabId.v \in DOMAIN tabLookup THEN tabLookup[tabId.v] ELSE Undefined)
                   ELSE Null
        vizSettings == OrElse(Get(dc, "visualization_settings"), EmptyObject)
        native == OrElse(Get(datasetQuery, "native"), EmptyObject)
        query == OrElse(Get(datasetQuery, "query"), EmptyObject)
    IN  IF ~Truthy(Get(dc, "card_id")) /\ ~Truthy(Get(card, "dataset_query"))
        THEN Obj([dashcard_id |-> Get(dc, "id"),
                  card_id |-> Null,
                  card_name |-> Str("(virtual card)"),
                  tab |-> tabName,
                  query_type |-> Str("virtual"),
                  text |-> OrElse(Get(vizSettings, "text"), Null)])
        ELSE IF Get(datasetQuery, "type") = Str("native")
        THEN Obj([dashcard_id |-> Get(dc, "id"),
                  card_id |-> Get(dc, "card_id"),
                  card_name |-> OrElse(Get(card, "name"), Str("(unnamed)")),
                  tab |-> tabName,
                  query_type |-> Str("native"),
                  database_id |-> Get(datasetQuery, "database"),
                  sql |-> OrElse(Get(native, "query"), Null),
                  template_tags |-> IF Truthy(Get(native, "template-tags"))
                                    THEN objectKeys(Get(native, "template-tags"))
                                    ELSE Arr(<<>>)])
        ELSE Obj([dashcard_id |-> Get(dc, "id"),
                  card_id |-> Get(dc, "card_id"),
                  card_name |-> OrElse(Get(card, "name"), Str("(unnamed)")),
                  tab |-> tabName,
                  query_type |-> Str("mbql"),
                  database_id |-> Get(datasetQuery, "database"),
                  mbql |-> resolveMbql(query, tn, fl)])

\* lines 1267-1311: the summary of one dashcard
cardSummary(dc, tabLookup, tn, fl) ==
    LET card == OrElse(Get(dc, "card"), EmptyObject)
        datasetQuery == OrElse(Get(card, "dataset_query"), EmptyObject)
        tabId == Get(dc, "dashboard_tab_id")
        tabName == IF Truthy(tabId)
                   THEN (IF tabId.v \in DOMAIN tabLookup THEN tabLookup[tabId.v] ELSE Undefined)
                   ELSE Null
        vizSettings == OrElse(Get(dc, "visualization_settings"), EmptyObject)
        native == OrElse(Get(datasetQuery, "native"), EmptyObject)
        query == OrElse(Get(datasetQuery, "query"), EmptyObject)
    IN  IF ~Truthy(Get(dc, "card_id"))
        THEN Obj([dashcard_id |-> Get(dc, "id"),
                  card_id |-> Null,
                  card_name |-> Str("(virtual card)"),
                  tab |-> tabName,
                  query_type |-> Str("virtual"),
                  text |-> OrElse(Get(vizSettings, "text"), Null)])
        ELSE IF Get(datasetQuery, "type") = Str("native")
        THEN Obj([dashcard_id |-> Get(dc, "id"),
                  card_id |-> Get(dc, "card_id"),
                  card_name |-> OrElse(Get(card, "name"), Str("(unnamed)")),
                  tab |-> tabName,
                  query_type |-> Str("native"),
                  database_id |-> Get(datasetQuery, "database"),
                  sql |-> OrElse(Get(native, "query"), Null),
                  template_tags |-> IF Truthy(Get(native, "template-tags"))
                                    THEN objectKeys(Get(native, "template-tags"))
                                    ELSE Arr(<<>>)])
        ELSE Obj([dashcard_id |-> Get(dc, "id"),
                  card_id |-> Get(dc, "card_id"),
                  card_name |-> OrElse(Get(card, "name"), Str("(unnamed)")),
                  tab |-> tabName,
                  query_type |-> Str("mbql"),
                  database_id |-> Get(datasetQuery, "database"),
                  mbql |-> resolveMbql(query, tn, fl)])

\* the characters of the modelled strings in ascending UTF-16 code unit order
CodeUnitOrder == " ()-.0123456789ABCDEFGHIJKLMNOPQRSTUVWXYZ_abcdefghijklmnopqrstuvwxyz"

codeUnitRank(c) == CHOOSE i \in 1..Len(CodeUnitOrder) : SubSeq(CodeUnitOrder, i, i) = c

\* a < b in the order of Array.prototype.sort without a comparator
RECURSIVE stringLess(_, _)
stringLess(a, b) ==
    IF a = "" THEN b # ""
    ELSE IF b = "" THEN FALSE
    ELSE IF Head(a) = Head(b) THEN stringLess(Tail(a), Tail(b))
    ELSE codeUnitRank(Head(a)) < codeUnitRank(Head(b))

\* the elements of a set of strings as a sorted array
RECURSIVE sortStrings(_)
sortStrings(S) ==
    IF S = {} THEN <<>>
    ELSE LET least == CHOOSE a \in S : \A b \in S : a = b \/ stringLess(a.v, b.v)
         IN  <<least>> \o sortStrings(S \ {least})

\* a list that leaves out the names of the tables whose fetch failed
tablesUsedFetchedOnly(tn) ==
    Arr(sortStrings({tn[t] : t \in {u \in DOMAIN tn : tn[u] # unknownTableName(u)}}))

\* line 1314: [...new Set(Object.values(tableNames))].sort()
tablesUsed(tn) == Arr(sortStrings({tn[t] : t \in DOMAIN tn}))

\* lines 1180-1322: what the handler returns once every table id was visited
queriesResult(a, d, tm, tn) ==
    LET dashcards == OrElse(Get(d, "dashcards"), Arr(<<>>))
        tabs == OrElse(Get(d, "tabs"), Arr(<<>>))
        tabLookup == buildTabLookup(<<>>, tabs.v, 1)
        fl == buildFieldLookup(<<>>, tm, tn)
        cards == Arr([i \in 1..Len(dashcards.v) |-> cardSummary(dashcards.v[i], tabLookup, tn, fl)])
    IN  stringify(Obj([dashboard_id |-> Num(a.dashboard_id),
                       dashboard_name |-> Get(d, "name"),
                       total_cards |-> Num(Len(dashcards.v)),
                       cards |-> cards,
                       tables_used |-> tablesUsed(tn)]))

-----------------------------------------------------------------------------
(* audit_dashboard_filters *)

\* a test that takes any element of type object, an array too, for the stage
hasStageNumberAnyObject(target) ==
    \E i \in 1..Len(target.v) :
        LET t == target.v[i]
        IN  TypeOf(t) = "object" /\ t # Null

\* lines 1373-1375: m.target.some(...)
hasStageNumber(target) ==
    \E i \in 1..Len(target.v) :
        LET t == target.v[i]
        IN  TypeOf(t) = "object" /\ t # Null /\ HasKey(t, "stage-number")

\* lines 1367-1380: the errors of the mappings from mapping i on
RECURSIVE mappingErrors(_, _)
mappingErrors(mappings, i) ==
    IF i > Len(mappings) THEN <<>>
    ELSE LET m == mappings[i]
             target == Get(m, "target")
             pid == TemplateString(Get(m, "parameter_id"))
             here == IF ~Truthy(target)
                     THEN <<Str("Parameter '" \o pid \o "' has no target")>>
                     ELSE IF IsArray(target) /\ At(target, 0) = Str("dimension")
                              /\ ~hasStageNumber(target)
                     THEN <<Str("Parameter '" \o pid
                                \o "' missing stage-number (MBQL cards require this)")>>
                     ELSE <<>>
         IN  here \o mappingErrors(mappings, i + 1)

RECURSIVE missingParams(_, _, _)

\* a filter that keeps the connected parameters
missingParamsKeepingConnected(parameterIds, connectedParams, i) ==
    IF i > Len(parameterIds) THEN <<>>
    ELSE (IF parameterIds[i] \in Range(connectedParams) THEN <<parameterIds[i]>> ELSE <<>>)
         \o missingParams(parameterIds, connectedParams, i + 1)

\* line 1364: parameterIds.filter(...), from parameter i on
missingParams(parameterIds, connectedParams, i) ==
    IF i > Len(parameterIds) THEN <<>>
    ELSE (IF parameterIds[i] \notin Range(connectedParams) THEN <<parameterIds[i]>> ELSE <<>>)
         \o missingParams(parameterIds, connectedParams, i + 1)

\* lines 1360-1398: the audit of one dashcard
cardAudit(dc, parameterIds) ==
    LET card == OrElse(Get(dc, "card"), EmptyObject)
        mappings == OrElse(Get(dc, "parameter_mappings"), Arr(<<>>))
        connectedParams == [i \in 1..Len(mappings.v) |-> Get(mappings.v[i], "parameter_id")]
        missing == missingParams(parameterIds, connectedParams, 1)
        st == OptGet(OptGet(Get(card, "dataset_query"), "query"), "source-table")
    IN  Obj([dashcard_id |-> Get(dc, "id"),
             card_id |-> Get(dc, "card_id"),
             card_name |-> OrElse(Get(card, "name"), Str("(virtual card)")),
             source_table |-> IF Truthy(st) THEN st ELSE Null,
             is_native_query |-> Bool(OptGet(Get(card, "dataset_query"), "type") = Str("native")),
             connected_params |-> Arr(connectedParams),
             missing_params |-> Arr(missing),
             errors |-> Arr(mappingErrors(mappings.v, 1))])

RECURSIVE cardsWithIssues(_, _)

\* a filter that looks at the errors only
cardsWithErrors(audits, i) ==
    IF i > Len(audits) THEN <<>>
    ELSE (IF Len(Get(audits[i], "errors").v) > 0 THEN <<audits[i]>> ELSE <<>>)
         \o cardsWithIssues(audits, i + 1)

\* lines 1401-1403: cardAudit.filter(...), from card i on
cardsWithIssues(audits, i) ==
    IF i > Len(audits) THEN <<>>
    ELSE (IF Len(Get(audits[i], "missing_params").v) > 0 \/ Len(Get(audits[i], "errors").v) > 0
          THEN <<audits[i]>> ELSE <<>>)
         \o cardsWithIssues(audits, i + 1)

\* lines 1354-1413: what audit_dashboard_filters returns
auditResult(a, d) ==
    LET dashcards == OrElse(Get(d, "dashcards"), Arr(<<>>))
        parameters == OrElse(Get(d, "parameters"), Arr(<<>>))
        parameterIds == [i \in 1..Len(parameters.v) |-> Get(parameters.v[i], "id")]
        audits == [i \in 1..Len(dashcards.v) |-> cardAudit(dashcards.v[i], parameterIds)]
        withIssues == cardsWithIssues(audits, 1)
    IN  stringify(Obj([dashboard_id |-> Num(a.dashboard_id),
                       total_parameters |-> Num(Len(parameters.v)),
                       parameter_ids |-> Arr(parameterIds),
                       total_cards |-> Num(Len(dashcards.v)),
                       cards_with_issues |-> Num(Len(withIssues)),
                       all_cards |-> Arr(audits),
                       cards_needing_attention |-> Arr(withIssues)]))


-----------------------------------------------------------------------------
(* The remote service: dashboards, table metadata, errors *)

MaxCards == 2

DashboardIds == {7, 42}

FieldNode(id) == Arr(<<Str("field"), Num(id), Null>>)
FieldNodeWith(id, key, value) == Arr(<<Str("field"), Num(id), Obj(key :> Str(value))>>)

Join(st, alias, condition) ==
    Obj(("source-table" :> st) @@ [alias |-> Str(alias), condition |-> condition])

Card(name, query) ==
    Obj([name |-> Str(name),
         dataset_query |-> Obj([database |-> Num(1), type |-> Str("query"), query |-> query])])

Mapping(pid, target) == Obj([parameter_id |-> Str(pid), target |-> target])

VirtualDashcard ==
    Obj([card_id |-> Null,
         visualization_settings |-> Obj([text |-> Str("Notes")])])

NativeDashcard ==
    Obj([card_id |-> Num(5),
         dashboard_tab_id |-> Num(1),
         card |-> Obj([name |-> Str("Raw"),
                       dataset_query |->
                           Obj([database |-> Num(1), type |-> Str("native"),
                                native |-> Obj(("query" :> Str("SELECT 1"))
                                               @@ ("template-tags" :> Obj([d |-> EmptyObject])))])]),
         parameter_mappings |->
             Arr(<<Mapping("p1", Arr(<<Str("variable"), Arr(<<Str("template-tag"), Str("d")>>)>>))>>)])

OrdersDashcard ==
    Obj([card_id |-> Num(1),
         dashboard_tab_id |-> Num(1),
         card |-> Card("Orders",
                       Obj(("source-table" :> Num(1))
                           @@ [filter |-> Arr(<<Str("="), FieldNode(10), Str("active")>>),
                               limit |-> Num(10)])),
         parameter_mappings |->
             Arr(<<Mapping("p1", Arr(<<Str("dimension"), FieldNode(10)>>))>>)])

OrdersPeopleDashcard ==
    Obj([card_id |-> Num(2),
         card |-> Card("Orders by person",
                       Obj(("source-table" :> Num(1))
                           @@ [joins |-> Arr(<<Join(Num(2), "P",
                                   Arr(<<Str("="), FieldNode(10),
                                         FieldNodeWith(20, "join-alias", "P")>>))>>)])),
         parameter_mappings |->
             Arr(<<Mapping("p1", Arr(<<Str("dimension"), FieldNode(10),
                                       Obj("stage-number" :> Num(0))>>)),
                   Mapping("p2", Null)>>)])

PeopleOrdersDashcard ==
    Obj([card_id |-> Num(3),
         dashboard_tab_id |-> Num(2),
         card |-> Card("People",
                       Obj(("source-table" :> Num(2))
                           @@ [joins |-> Arr(<<Join(Num(1), "O",
                                                    Arr(<<Str("="), FieldNode(20), FieldNode(11)>>)),
                                               Obj(("source-table" :> Num(2)) @@ [alias |-> Str("Q")])>>),
                               breakout |-> Arr(<<FieldNodeWith(11, "temporal-unit", "month")>>)])),
         parameter_mappings |-> Arr(<<Mapping("p2", Arr(<<Str("dimension"), FieldNode(20)>>)),
                                      Mapping("p1", Arr(<<Str("dimension"), FieldNode(11)>>))>>)])

\* a card on the table id 0 that joins the table id 0; its mappings have no
\* target member, a stage-number inside the options of the field and not among
\* the elements of the target, and a target that is not a dimension
ZeroTableDashcard ==
    Obj([card_id |-> Num(4),
         card |-> Card("Zero",
                       Obj(("source-table" :> Num(0))
                           @@ [fields |-> Arr(<<Arr(<<Str("field"), Num(999)>>)>>),
                               joins |-> Arr(<<Join(Num(0), "Z",
                                   Arr(<<Str("="), FieldNode(10), FieldNode(999)>>))>>)])),
         parameter_mappings |->
             Arr(<<Obj([parameter_id |-> Str("p2")]),
                   Mapping("p1", Arr(<<Str("dimension"),
                                       Arr(<<Str("field"), Num(10),
                                             Obj("stage-number" :> Num(0))>>)>>)),
                   Mapping("p1", Arr(<<Str("text-tag"), Str("x")>>))>>)])

SavedQuestionDashcard ==
    Obj([card_id |-> Num(6),
         card |-> Card("Nested",
                       Obj(("source-table" :> Str("card__5"))
                           @@ [joins |-> Arr(<<Join(Str("card__6"), "C",
                                                    Arr(<<Str("="), FieldNode(10), FieldNode(30)>>))>>),
                               aggregation |-> Arr(<<Arr(<<Str("count")>>)>>)]))])

SalesDashcard ==
    Obj([card_id |-> Num(7),
         card |-> Card("Sales",
                       Obj(("source-table" :> Num(3))
                           @@ ("order-by" :> Arr(<<Arr(<<Str("desc"), FieldNode(30)>>)>>))
                           @@ [expressions |->
                                   Obj([x |-> Arr(<<Str("+"), FieldNode(30), Num(1)>>)])]))])

\* a dashcard without a card_id member that carries a card with a query
VirtualWithQueryDashcard ==
    Obj([visualization_settings |-> Obj([text |-> Str("Heading")]),
         card |-> Card("Hidden",
                       Obj(("source-table" :> Num(3))
                           @@ [filter |-> Arr(<<Str(">"), FieldNode(30), Num(0)>>)]))])

\* a dashcard whose card_id is the number 0
ZeroCardIdDashcard ==
    Obj([card_id |-> Num(0),
         card |-> Obj([name |-> Str("Zero card"),
                       dataset_query |->
                           Obj([database |-> Num(1), type |-> Str("native"),
                                native |-> Obj([query |-> Str("SELECT 2")])])])])

\* a native card whose query text is the empty string, with every parameter
\* of the dashboard connected and no faulty mapping
EmptySqlDashcard ==
    Obj([card_id |-> Num(9),
         card |-> Obj([name |-> Str("Draft"),
                       dataset_query |->
                           Obj([database |-> Num(1), type |-> Str("native"),
                                native |-> Obj([query |-> Str("")])])]),
         parameter_mappings |->
             Arr(<<Mapping("p1", Arr(<<Str("dimension"), FieldNode(20),
                                       Obj("stage-number" :> Num(0))>>)),
                   Mapping("p2", Arr(<<Str("variable"),
                                       Arr(<<Str("template-tag"), Str("d")>>)>>))>>)])

DashcardTemplates ==
    {VirtualDashcard, NativeDashcard, OrdersDashcard, OrdersPeopleDashcard,
     PeopleOrdersDashcard, ZeroTableDashcard, SavedQuestionDashcard, SalesDashcard,
     VirtualWithQueryDashcard, ZeroCardIdDashcard, EmptySqlDashcard}

\* dashcard number i of a dashboard: the template with its own dashcard id
Dashcard(template, i) == Obj(("id" :> Num(100 + i)) @@ template.v)

DashboardOf(templates) ==
    Obj([name |-> Str("Sales overview"),
         tabs |-> Arr(<<Obj([id |-> Num(1), name |-> Str("Overview")])>>),
         parameters |-> Arr(<<Obj([id |-> Str("p1")]), Obj([id |-> Str("p2")])>>),
         dashcards |-> Arr([i \in 1..Len(templates) |-> Dashcard(templates[i], i)])])

\* the dashboards getDashboard can resolve with
Dashboards ==
    {Obj([name |-> Str("Empty")])}
    \cup {DashboardOf(ts) : ts \in UNION {[1..n -> DashcardTemplates] : n \in 0..MaxCards}}

\* the fields of each table; field ids are unique across tables
TableFields(tableId) ==
    CASE tableId = 1 -> <<Obj([id |-> Num(10), name |-> Str("CREATED_AT")]),
                          Obj([id |-> Num(11), name |-> Str("")])>>
      [] tableId = 2 -> <<Obj([id |-> Num(20), name |-> Str("AMOUNT")])>>
      [] tableId = 3 -> <<Obj([id |-> Num(30), name |-> Str("TOTAL")])>>
      [] OTHER -> <<>>

\* the metadata getTableQueryMetadata can resolve with for a table
TableMetadata(tableId) ==
    CASE tableId = 1 ->
            {Obj(Member(schema # Undefined, "schema", schema)
                 @@ Member(name # Undefined, "name", name)
                 @@ [id |-> Num(1), fields |-> Arr(TableFields(1))]) :
                schema \in {Str("public"), Undefined}, name \in {Str("orders"), Undefined}}
      [] tableId = 2 ->
            {Obj([id |-> Num(2), schema |-> Str(""), name |-> name,
                  fields |-> Arr(TableFields(2))]) : name \in {Str("people"), Str("")}}
      [] tableId = 3 ->
            {Obj([id |-> Num(3), schema |-> Str("sales"), name |-> Str("orders"),
                  fields |-> Arr(TableFields(3))]),
             Obj([id |-> Num(3), schema |-> Null, name |-> Str("orders")])}
      [] OTHER -> {Obj([id |-> Num(tableId), name |-> Str("t")])}

\* what a rejected request throws
Errors ==
    {[instanceOfError |-> TRUE, kind |-> "NotFound", message |-> "Request failed with status code 404"],
     [instanceOfError |-> TRUE, kind |-> "Transport", message |-> "connect ECONNREFUSED"]}

\* a thrown value that is not an Error
NotAnError == [instanceOfError |-> FALSE, kind |-> "Other", message |-> ""]

\* error instanceof Error ? error.message : "Unknown error"
errorMessage(error) == IF error.instanceOfError THEN error.message ELSE "Unknown error"


-----------------------------------------------------------------------------
(* The handlers, one action per step between two awaits *)

NoResult == [status |-> "none"]
Returned(value) == [status |-> "returned", value |-> value]
Threw(message) == [status |-> "threw", message |-> message]

NoError == [instanceOfError |-> FALSE, kind |-> "none", message |-> ""]

NoArgs == [tool |-> "none", dashboard_id |-> 0]

Init ==
    /\ pc = "idle"
    /\ args = NoArgs
    /\ dashboard = Undefined
    /\ tableIds = <<>>
    /\ pending = <<>>
    /\ tableMetadata = <<>>
    /\ tableNames = <<>>
    /\ fieldLookup = <<>>
    /\ fetchLog = <<>>
    /\ fetchErrors = <<>>
    /\ dashboardError = NoError
    /\ result = NoResult
    /\ ref = Undefined
    /\ resolved = Undefined

\* line 1137: get_dashboard_queries is entered and calls getDashboard
CallGetDashboardQueries ==
    /\ pc = "idle"
    /\ pc' = "getDashboard"
    /\ \E id \in DashboardIds : args' = [tool |-> "get_dashboard_queries", dashboard_id |-> id]
    /\ UNCHANGED <<dashboard, tableIds, pending, tableMetadata, tableNames, fieldLookup,
                   fetchLog, fetchErrors, dashboardError, result, ref, resolved>>

\* line 1353: audit_dashboard_filters is entered and calls getDashboard
CallAuditDashboardFilters ==
    /\ pc = "idle"
    /\ pc' = "getDashboard"
    /\ \E id \in DashboardIds : args' = [tool |-> "audit_dashboard_filters", dashboard_id |-> id]
    /\ UNCHANGED <<dashboard, tableIds, pending, tableMetadata, tableNames, fieldLookup,
                   fetchLog, fetchErrors, dashboardError, result, ref, resolved>>

\* a loop that resolves the cards each time round, with the tables it has so far
ContinueResolvingEarly(d, tm, tn, errs, rest) ==
    /\ tableMetadata' = tm
    /\ tableNames' = tn
    /\ fetchErrors' = errs
    /\ pending' = rest
    /\ fieldLookup' = buildFieldLookup(<<>>, tm, tn)
    /\ result' = Returned(queriesResult(args, d, tm, tn))
    /\ IF rest # <<>>
       THEN /\ fetchLog' = Append(fetchLog, Head(rest))
            /\ pc' = "getTableQueryMetadata"
       ELSE /\ pc' = "done"
            /\ UNCHANGED fetchLog

\* lines 1166-1322 from the top of the for-of loop: with a table id left, call
\* getTableQueryMetadata for it and await; with none left, run to the return
Continue(d, tm, tn, errs, rest) ==
    /\ tableMetadata' = tm
    /\ tableNames' = tn
    /\ fetchErrors' = errs
    /\ pending' = rest
    /\ IF rest # <<>>
       THEN /\ fetchLog' = Append(fetchLog, Head(rest))
            /\ pc' = "getTableQueryMetadata"
            /\ UNCHANGED <<fieldLookup, result>>
       ELSE /\ fieldLookup' = buildFieldLookup(<<>>, tm, tn)
            /\ result' = Returned(queriesResult(args, d, tm, tn))
            /\ pc' = "done"
            /\ UNCHANGED fetchLog

\* lines 1137-1166: getDashboard resolved in get_dashboard_queries
QueriesGetDashboardResolves ==
    /\ pc = "getDashboard"
    /\ args.tool = "get_dashboard_queries"
    /\ \E d \in Dashboards :
        LET dashcards == OrElse(Get(d, "dashcards"), Arr(<<>>))
            ids == collectTableIds(<<>>, dashcards.v, 1)
        IN  /\ dashboard' = d
            /\ tableIds' = ids
            /\ Continue(d, <<>>, <<>>, <<>>, ids)
    /\ UNCHANGED <<args, dashboardError, ref, resolved>>

\* the dashcard after `query['source-table'] = tableNames[...]` on its own query
renamedInPlace(dc, tn) ==
    LET card == OptGet(dc, "card")
        datasetQuery == OptGet(card, "dataset_query")
        query == OptGet(datasetQuery, "query")
        st == OptGet(query, "source-table")
    IN  IF Truthy(st) /\ TypeOf(st) = "number"
        THEN Obj(("card" :>
                    Obj(("dataset_query" :>
                            Obj(("query" :>
                                    Obj(("source-table" :> resolveTableName(st.v, tn))
                                        @@ query.v))
                                @@ datasetQuery.v))
                        @@ card.v))
                 @@ dc.v)
        ELSE dc

\* a resolution that writes the table names into the queries of the dashboard
GetTableQueryMetadataResolvesInPlace ==
    /\ pc = "getTableQueryMetadata"
    /\ LET tableId == Head(pending)
       IN  \E metadata \in TableMetadata(tableId) :
               LET tn == (tableId :> qualifiedName(tableId, metadata)) @@ tableNames
                   dcs == Get(dashboard, "dashcards").v
               IN  /\ Continue(dashboard, (tableId :> metadata) @@ tableMetadata, tn,
                               fetchErrors, Tail(pending))
                   /\ dashboard' =
                          IF Tail(pending) = <<>>
                          THEN Obj(("dashcards" :>
                                       Arr([i \in 1..Len(dcs) |-> renamedInPlace(dcs[i], tn)]))
                                   @@ dashboard.v)
                          ELSE dashboard
    /\ UNCHANGED <<args, tableIds, dashboardError, ref, resolved>>

\* lines 1168-1173: getTableQueryMetadata resolved
GetTableQueryMetadataResolves ==
    /\ pc = "getTableQueryMetadata"
    /\ LET tableId == Head(pending)
       IN  \E metadata \in TableMetadata(tableId) :
               Continue(dashboard, (tableId :> metadata) @@ tableMetadata,
                        (tableId :> qualifiedName(tableId, metadata)) @@ tableNames,
                        fetchErrors, Tail(pending))
    /\ UNCHANGED <<args, dashboard, tableIds, dashboardError, ref, resolved>>

\* a catch that leaves the loop: the table ids left are not visited
GetTableQueryMetadataRejectsAndBreaks ==
    /\ pc = "getTableQueryMetadata"
    /\ LET tableId == Head(pending)
       IN  \E e \in Errors :
               Continue(dashboard, tableMetadata,
                        (tableId :> unknownTableName(tableId)) @@ tableNames,
                        (tableId :> e) @@ fetchErrors, <<>>)
    /\ UNCHANGED <<args, dashboard, tableIds, dashboardError, ref, resolved>>

\* a catch that rethrows a transport error with the table id
GetTableQueryMetadataRejectsAndRethrows ==
    /\ pc = "getTableQueryMetadata"
    /\ LET tableId == Head(pending)
       IN  \E e \in Errors :
               IF e.kind = "Transport"
               THEN /\ result' = Threw("Failed to get metadata for table "
                                       \o NumberToString(tableId) \o ": " \o errorMessage(e))
                    /\ fetchErrors' = (tableId :> e) @@ fetchErrors
                    /\ pc' = "done"
                    /\ UNCHANGED <<tableMetadata, tableNames, pending, fieldLookup, fetchLog>>
               ELSE Continue(dashboard, tableMetadata,
                             (tableId :> unknownTableName(tableId)) @@ tableNames,
                             (tableId :> e) @@ fetchErrors, Tail(pending))
    /\ UNCHANGED <<args, dashboard, tableIds, dashboardError, ref, resolved>>

\* lines 1174-1176: getTableQueryMetadata rejected
GetTableQueryMetadataRejects ==
    /\ pc = "getTableQueryMetadata"
    /\ LET tableId == Head(pending)
       IN  \E e \in Errors :
               Continue(dashboard, tableMetadata,
                        (tableId :> unknownTableName(tableId)) @@ tableNames,
                        (tableId :> e) @@ fetchErrors, Tail(pending))
    /\ UNCHANGED <<args, dashboard, tableIds, dashboardError, ref, resolved>>

\* an audit that asks for the metadata of the tables of the dashboard
AuditGetDashboardResolvesAndFetches ==
    /\ pc = "getDashboard"
    /\ args.tool = "audit_dashboard_filters"
    /\ \E d \in Dashboards :
        /\ dashboard' = d
        /\ fetchLog' = collectTableIds(<<>>, OrElse(Get(d, "dashcards"), Arr(<<>>)).v, 1)
        /\ result' = Returned(auditResult(args, d))
    /\ pc' = "done"
    /\ UNCHANGED <<args, tableIds, pending, tableMetadata, tableNames, fieldLookup,
                   fetchErrors, dashboardError, ref, resolved>>

\* lines 1353-1413: getDashboard resolved in audit_dashboard_filters
AuditGetDashboardResolves ==
    /\ pc = "getDashboard"
    /\ args.tool = "audit_dashboard_filters"
    /\ \E d \in Dashboards :
        /\ dashboard' = d
        /\ result' = Returned(auditResult(args, d))
    /\ pc' = "done"
    /\ UNCHANGED <<args, tableIds, pending, tableMetadata, tableNames, fieldLookup,
                   fetchLog, fetchErrors, dashboardError, ref, resolved>>

\* a message that leaves the dashboard id out
failureMessageWithoutId(a, error) ==
    (IF a.tool = "get_dashboard_queries"
     THEN "Failed to get queries for dashboard"
     ELSE "Failed to audit dashboard")
    \o ": " \o errorMessage(error)

\* the message of the Error thrown by the catch of lines 1323-1329 and 1414-1420
failureMessage(a, error) ==
    (IF a.tool = "get_dashboard_queries"
     THEN "Failed to get queries for dashboard "
     ELSE "Failed to audit dashboard ")
    \o NumberToString(a.dashboard_id) \o ": " \o errorMessage(error)

\* getDashboard rejected: the catch of the running tool rethrows
GetDashboardRejects ==
    /\ pc = "getDashboard"
    /\ \E e \in Errors \cup {NotAnError} :
        /\ dashboardError' = e
        /\ result' = Threw(failureMessage(args, e))
    /\ pc' = "done"
    /\ UNCHANGED <<args, dashboard, tableIds, pending, tableMetadata, tableNames,
                   fieldLookup, fetchLog, fetchErrors, ref, resolved>>

\* a return that leaves the tables in a cache of the module for the next call
ReturnKeepingTables ==
    /\ pc = "done"
    /\ pc' = "idle"
    /\ args' = NoArgs
    /\ dashboard' = Undefined
    /\ tableIds' = <<>>
    /\ pending' = <<>>
    /\ fetchLog' = <<>>
    /\ fetchErrors' = <<>>
    /\ dashboardError' = NoError
    /\ result' = NoResult
    /\ UNCHANGED <<tableMetadata, tableNames, fieldLookup, ref, resolved>>

\* the call is over: its locals go out of scope
Return ==
    /\ pc = "done"
    /\ pc' = "idle"
    /\ args' = NoArgs
    /\ dashboard' = Undefined
    /\ tableIds' = <<>>
    /\ pending' = <<>>
    /\ tableMetadata' = <<>>
    /\ tableNames' = <<>>
    /\ fieldLookup' = <<>>
    /\ fetchLog' = <<>>
    /\ fetchErrors' = <<>>
    /\ dashboardError' = NoError
    /\ result' = NoResult
    /\ UNCHANGED <<ref, resolved>>

Next ==
    \/ CallGetDashboardQueries
    \/ CallAuditDashboardFilters
    \/ QueriesGetDashboardResolves
    \/ GetTableQueryMetadataResolves
    \/ GetTableQueryMetadataRejects
    \/ AuditGetDashboardResolves
    \/ GetDashboardRejects
    \/ Return

Spec == Init /\ [][Next]_vars


-----------------------------------------------------------------------------
(* search_dashboards *)

UpperCaseLetters == "ABCDEFGHIJKLMNOPQRSTUVWXYZ"
LowerCaseLetters == "abcdefghijklmnopqrstuvwxyz"

\* String.prototype.toLowerCase for one character of the modelled strings
lowerCaseOf(c) ==
    IF \E i \in 1..Len(UpperCaseLetters) : SubSeq(UpperCaseLetters, i, i) = c
    THEN LET i == CHOOSE j \in 1..Len(UpperCaseLetters) : SubSeq(UpperCaseLetters, j, j) = c
         IN  SubSeq(LowerCaseLetters, i, i)
    ELSE c

\* String.prototype.toLowerCase
RECURSIVE toLowerCase(_)
toLowerCase(s) ==
    IF s = "" THEN "" ELSE lowerCaseOf(Head(s)) \o toLowerCase(Tail(s))

\* String.prototype.includes
includes(s, q) ==
    \/ q = ""
    \/ \E i \in 1..(Len(s) - Len(q) + 1) : SubSeq(s, i, i + Len(q) - 1) = q

\* x?.toLowerCase().includes(query.toLowerCase()) of lines 1053-1054
includesQuery(x, query) ==
    IF x \in {Undefined, Null} THEN Undefined
    ELSE Bool(includes(toLowerCase(x.v), toLowerCase(query)))

\* the predicate of dashboards.filter of lines 1051-1055
matchesQuery(d, query) ==
    Truthy(OrElse(includesQuery(Get(d, "name"), query),
                  includesQuery(Get(d, "description"), query)))

\* dashboards.filter(...), from dashboard i on
RECURSIVE filterDashboards(_, _, _)
filterDashboards(dashboards, query, i) ==
    IF i > Len(dashboards) THEN <<>>
    ELSE (IF matchesQuery(dashboards[i], query) THEN <<dashboards[i]>> ELSE <<>>)
         \o filterDashboards(dashboards, query, i + 1)

\* Array.prototype.slice(0, end): a negative end counts from the end of the array
slice(a, end) ==
    LET last == IF end < 0 THEN (IF Len(a) + end < 0 THEN 0 ELSE Len(a) + end)
                ELSE (IF end > Len(a) THEN Len(a) ELSE end)
    IN  SubSeq(a, 1, last)

\* lines 1051-1058: what search_dashboards returns
searchResult(a, dashboards) ==
    LET filtered == filterDashboards(dashboards, a.query, 1)
        results == IF Truthy(a.limit) THEN slice(filtered, a.limit.v) ELSE filtered
    IN  stringify(Arr(results))

MaxDashboards == 3

\* the dashboards of the service as getDashboards lists them
ListedDashboards ==
    {Obj([id |-> Num(1), name |-> Str("Sales Overview"), description |-> Str("Monthly revenue")]),
     Obj([id |-> Num(2), name |-> Str("Ops"), description |-> Null]),
     Obj([id |-> Num(3), name |-> Str("Marketing")]),
     Obj([id |-> Num(4), name |-> Str("KPI"), description |-> Str("sales by region")])}

\* what getDashboards can resolve with
DashboardLists == UNION {[1..n -> ListedDashboards] : n \in 0..MaxDashboards}

\* args.query
SearchQueries == {"sales", "SALES", "", "ops", "zzz"}

\* args.limit: not given, or a number
SearchLimits == {Undefined, Num(0), Num(1), Num(2), Num(-1)}

NoSearchArgs == [tool |-> "none", query |-> "", limit |-> Undefined]

InitSearch ==
    /\ pc = "idle"
    /\ args = NoSearchArgs
    /\ dashboard = Undefined
    /\ tableIds = <<>>
    /\ pending = <<>>
    /\ tableMetadata = <<>>
    /\ tableNames = <<>>
    /\ fieldLookup = <<>>
    /\ fetchLog = <<>>
    /\ fetchErrors = <<>>
    /\ dashboardError = NoError
    /\ result = NoResult
    /\ ref = Undefined
    /\ resolved = Undefined

\* line 1050: search_dashboards is entered and calls getDashboards
CallSearchDashboards ==
    /\ pc = "idle"
    /\ pc' = "getDashboards"
    /\ \E query \in SearchQueries, limit \in SearchLimits :
           args' = [tool |-> "search_dashboards", query |-> query, limit |-> limit]
    /\ UNCHANGED <<dashboard, tableIds, pending, tableMetadata, tableNames, fieldLookup,
                   fetchLog, fetchErrors, dashboardError, result, ref, resolved>>

\* lines 1050-1058: getDashboards resolved
GetDashboardsResolves ==
    /\ pc = "getDashboards"
    /\ \E dashboards \in DashboardLists :
        /\ dashboard' = Arr(dashboards)
        /\ result' = Returned(searchResult(args, dashboards))
    /\ pc' = "done"
    /\ UNCHANGED <<args, tableIds, pending, tableMetadata, tableNames, fieldLookup,
                   fetchLog, fetchErrors, dashboardError, ref, resolved>>

\* lines 1059-1065: getDashboards rejected, the catch rethrows
GetDashboardsRejects ==
    /\ pc = "getDashboards"
    /\ \E e \in Errors \cup {NotAnError} :
        /\ dashboardError' = e
        /\ result' = Threw("Failed to search dashboards: " \o errorMessage(e))
    /\ pc' = "done"
    /\ UNCHANGED <<args, dashboard, tableIds, pending, tableMetadata, tableNames,
                   fieldLookup, fetchLog, fetchErrors, ref, resolved>>

\* the call is over: its locals go out of scope
ReturnSearch ==
    /\ pc = "done"
    /\ pc' = "idle"
    /\ args' = NoSearchArgs
    /\ dashboard' = Undefined
    /\ dashboardError' = NoError
    /\ result' = NoResult
    /\ UNCHANGED <<tableIds, pending, tableMetadata, tableNames, fieldLookup, fetchLog,
                   fetchErrors, ref, resolved>>

NextSearch ==
    \/ CallSearchDashboards
    \/ GetDashboardsResolves
    \/ GetDashboardsRejects
    \/ ReturnSearch

SpecSearch == InitSearch /\ [][NextSearch]_vars


-----------------------------------------------------------------------------
(* parseToolFilterOptions on its own: the command line is drawn from a bounded *)
(* set, one action applies the function                                      *)

\* Array.prototype.includes
arrayIncludes(a, x) == \E i \in 1..Len(a) : a[i] = x

\* process.argv.slice(2)
sliceFrom(a, start) == SubSeq(a, start + 1, Len(a))

\* a parser that looks for --write before --all
parseToolFilterOptionsWriteFirst(argv) ==
    LET arguments == sliceFrom(argv, 2)
    IN  IF arrayIncludes(arguments, "--write") THEN [mode |-> "write"]
        ELSE IF arrayIncludes(arguments, "--all") THEN [mode |-> "all"]
        ELSE IF arrayIncludes(arguments, "--essential") THEN [mode |-> "essential"]
        ELSE [mode |-> "essential"]

\* src/utils/tool-filters.ts lines 13-29
parseToolFilterOptions(argv) ==
    LET arguments == sliceFrom(argv, 2)
    IN  IF arrayIncludes(arguments, "--all") THEN [mode |-> "all"]
        ELSE IF arrayIncludes(arguments, "--write") THEN [mode |-> "write"]
        ELSE IF arrayIncludes(arguments, "--essential") THEN [mode |-> "essential"]
        ELSE [mode |-> "essential"]

MaxArgs == 3

\* the words a command line is made of: the three flags, another option, and
\* the names of the flags without the dashes
CommandLineWords == {"--all", "--write", "--essential", "--port", "all", "write"}

\* process.argv: the executable, the script, then the arguments
CommandLines ==
    {<<"node", "server.js">> \o arguments :
        arguments \in UNION {[1..n -> CommandLineWords] : n \in 0..MaxArgs}}

InitFilter ==
    /\ pc = "parseToolFilterOptions"
    /\ ref \in CommandLines
    /\ resolved = Undefined
    /\ args = NoArgs
    /\ dashboard = Undefined
    /\ tableIds = <<>>
    /\ pending = <<>>
    /\ tableMetadata = <<>>
    /\ tableNames = <<>>
    /\ fieldLookup = <<>>
    /\ fetchLog = <<>>
    /\ fetchErrors = <<>>
    /\ dashboardError = NoError
    /\ result = NoResult

\* parseToolFilterOptions() is called and returns
ParseToolFilterOptions ==
    /\ pc = "parseToolFilterOptions"
    /\ resolved' = parseToolFilterOptions(ref)
    /\ pc' = "parsed"
    /\ UNCHANGED <<args, dashboard, tableIds, pending, tableMetadata, tableNames,
                   fieldLookup, fetchLog, fetchErrors, dashboardError, result, ref>>

NextFilter == ParseToolFilterOptions

SpecFilter == InitFilter /\ [][NextFilter]_vars


-----------------------------------------------------------------------------
(* resolveFieldRef on its own: the node and the lookup are drawn from bounded *)
(* sets, one action applies the function                                     *)

MaxLen == 3

\* the elements of the generated arrays
Atoms ==
    {Num(10), Num(11), Num(999), Str("field"), Str("="), Null, Bool(FALSE),
     Obj("temporal-unit" :> Str("month"))}

ArraysOver(S, n) == {Arr(s) : s \in UNION {[1..m -> S] : m \in 0..n}}

\* arrays of atoms, up to MaxLen long
FlatNodes == ArraysOver(Atoms, MaxLen)

\* the children of the nested arrays
Children ==
    ArraysOver({Num(10), Num(999), Str("field"), Null}, 2)

\* an operator or "field" or a number, then an array, then possibly one more element
NestedNodes ==
    {Arr(<<h, c>>) : h \in {Str("and"), Str("field"), Num(10)}, c \in Children}
    \cup {Arr(<<h, c, a>>) : h \in {Str("and"), Str("field")}, c \in Children,
                             a \in {Num(11), Arr(<<Str("field"), Num(11), Str("x")>>)}}
    \cup {Arr(<<Str("field"), Num(10), c>>) : c \in Children}

\* arrays that start with "field" and a number and have more than three elements
LongFieldNodes ==
    {Arr(<<Str("field"), Num(10), third, fourth>>) :
        third \in {Null, Obj("temporal-unit" :> Str("month"))},
        fourth \in {Num(11), FieldNode(11)}}

\* arrays that start with "field" and have a name where the id belongs
MalformedFieldNodes ==
    {Arr(<<Str("field"), Str("NAME"), Null>>),
     Arr(<<Str("field"), Str("NAME"), FieldNode(10)>>)}

QueryTrees ==
    {Undefined, Str(""), Num(0), Bool(TRUE), EmptyObject}
    \cup Atoms \cup FlatNodes \cup NestedNodes \cup LongFieldNodes \cup MalformedFieldNodes

\* the field lookups an extraction can build: one per set of fetched tables
FieldLookups ==
    {buildFieldLookup(<<>>,
                      [t \in T |-> Obj([fields |-> Arr(TableFields(t))])],
                      [t \in T |-> Str("table_" \o NumberToString(t))]) : T \in SUBSET {1, 2}}

InitResolver ==
    /\ pc = "resolveFieldRef"
    /\ ref \in QueryTrees
    /\ fieldLookup \in FieldLookups
    /\ resolved = Undefined
    /\ args = NoArgs
    /\ dashboard = Undefined
    /\ tableIds = <<>>
    /\ pending = <<>>
    /\ tableMetadata = <<>>
    /\ tableNames = <<>>
    /\ fetchLog = <<>>
    /\ fetchErrors = <<>>
    /\ dashboardError = NoError
    /\ result = NoResult

\* resolveFieldRef(ref) is called and returns
ResolveFieldRef ==
    /\ pc = "resolveFieldRef"
    /\ resolved' = resolveFieldRef(ref, fieldLookup)
    /\ pc' = "resolved"
    /\ UNCHANGED <<args, dashboard, tableIds, pending, tableMetadata, tableNames,
                   fieldLookup, fetchLog, fetchErrors, dashboardError, result, ref>>

NextResolver == ResolveFieldRef

SpecResolver == InitResolver /\ [][NextResolver]_vars


-----------------------------------------------------------------------------
(* resolveMbql on its own: the query is drawn from a bounded set, tableNames  *)
(* and fieldLookup are what the loops of lines 1163-1187 leave for a         *)
(* dashboard that holds the query, one action applies the function           *)

\* the source-table member of a query: none, an id, the id 0, a saved question
SourceTables == {Undefined, Num(0), Num(1), Num(777), Str("card__5")}

\* the limit member of a query
Limits == {Undefined, Num(0), Num(10)}

\* the joins of a query: a fetched table, the id 0, a saved question without a
\* condition; alias, strategy and fields are members the code passes through
QueryJoins ==
    Arr(<<Obj(("source-table" :> Num(2))
              @@ [alias |-> Str("P"), strategy |-> Str("left-join"),
                  condition |-> Arr(<<Str("="), FieldNode(10),
                                      FieldNodeWith(20, "join-alias", "P")>>)]),
          Obj(("source-table" :> Num(0))
              @@ [alias |-> Str("Z"), condition |-> Arr(<<Str("="), FieldNode(999), Num(1)>>)]),
          Obj(("source-table" :> Str("card__6")) @@ [alias |-> Str("C"), fields |-> Str("all")])>>)

\* the members of a query other than source-table and limit
QueryBodies ==
    {<<>>,
     [filter |-> Arr(<<Str("="), FieldNode(10), Str("active")>>)],
     [aggregation |-> Arr(<<Arr(<<Str("count")>>), Arr(<<Str("sum"), FieldNode(20)>>)>>),
      breakout |-> Arr(<<FieldNodeWith(11, "temporal-unit", "month")>>)],
     ("order-by" :> Arr(<<Arr(<<Str("desc"), FieldNode(20)>>)>>))
         @@ [fields |-> Arr(<<FieldNode(10), FieldNode(999)>>)],
     [joins |-> QueryJoins],
     [expressions |-> Obj([x |-> Arr(<<Str("+"), FieldNode(20), Num(1)>>)])],
     ("source-query" :> Obj("source-table" :> Num(1)))
         @@ [filter |-> Arr(<<Str(">"), FieldNode(10), Num(0)>>)],
     [filter |-> Null, fields |-> Arr(<<>>)],
     ("source-query" :> Obj("source-table" :> Num(1)))
         @@ ("order-by" :> Arr(<<Arr(<<Str("asc"), FieldNode(10)>>)>>))
         @@ [filter |-> Arr(<<Str("="), FieldNode(10), Str("active")>>),
             aggregation |-> Arr(<<Arr(<<Str("count")>>)>>),
             breakout |-> Arr(<<FieldNode(11)>>),
             joins |-> QueryJoins,
             fields |-> Arr(<<FieldNode(20)>>),
             expressions |-> Obj([x |-> Arr(<<Str("+"), FieldNode(20), Num(1)>>)])]}

\* datasetQuery.query || {} of line 1301 for the cards of the dashboards
Queries ==
    {Obj(Member(st # Undefined, "source-table", st)
         @@ Member(limit # Undefined, "limit", limit)
         @@ body) : st \in SourceTables, limit \in Limits, body \in QueryBodies}

\* the table ids lines 1147-1161 collect from a card with this query
queryTableIds(query) == Range(addCardTableIds(<<>>, Obj([card |-> Card("q", query)])))

\* resolveMbql is called for a query of the dashboard: every collected table
\* id was fetched or has failed, table 3 may come from another card
InitMbql ==
    /\ pc = "resolveMbql"
    /\ ref \in Queries
    /\ \E other \in SUBSET {3} :
       \E fetched \in SUBSET (queryTableIds(ref) \cup other) :
       \E tm \in [fetched -> UNION {TableMetadata(t) : t \in fetched}] :
           /\ \A t \in fetched : tm[t] \in TableMetadata(t)
           /\ tableMetadata = tm
           /\ tableNames = [t \in queryTableIds(ref) \cup other |->
                               IF t \in fetched THEN qualifiedName(t, tm[t])
                               ELSE unknownTableName(t)]
           /\ fieldLookup = buildFieldLookup(<<>>, tm, tableNames)
    /\ resolved = Undefined
    /\ args = NoArgs
    /\ dashboard = Undefined
    /\ tableIds = <<>>
    /\ pending = <<>>
    /\ fetchLog = <<>>
    /\ fetchErrors = <<>>
    /\ dashboardError = NoError
    /\ result = NoResult

\* line 1309: resolveMbql(query) is called and returns
ResolveMbql ==
    /\ pc = "resolveMbql"
    /\ resolved' = resolveMbql(ref, tableNames, fieldLookup)
    /\ pc' = "resolvedMbql"
    /\ UNCHANGED <<args, dashboard, tableIds, pending, tableMetadata, tableNames,
                   fieldLookup, fetchLog, fetchErrors, dashboardError, result, ref>>

NextMbql == ResolveMbql

SpecMbql == InitMbql /\ [][NextMbql]_vars


-----------------------------------------------------------------------------
(* Properties of the metadata fetch loop *)

QueriesDone == pc = "done" /\ args.tool = "get_dashboard_queries"

\* the dashcards of a dashboard value
DashcardsOf(d) == IF HasKey(d, "dashcards") THEN Get(d, "dashcards").v ELSE <<>>

\* the structured query of a dashcard
QueryOf(dc) == Get(Get(Get(dc, "card"), "dataset_query"), "query")

\* the source-table values of a dashcard's query and of its joins
SourceTablesOf(dc) ==
    LET q == QueryOf(dc)
        joins == IF HasKey(q, "joins") THEN Get(q, "joins").v ELSE <<>>
    IN  {Get(q, "source-table")} \cup {Get(joins[i], "source-table") : i \in 1..Len(joins)}

\* the numeric table ids a dashboard references
ReferencedTableIds(d) ==
    {st.v : st \in {x \in UNION {SourceTablesOf(DashcardsOf(d)[i]) : i \in 1..Len(DashcardsOf(d))} :
                        x.k = "number"}}

\* how often x occurs in the sequence s
Count(s, x) == Cardinality({i \in 1..Len(s) : s[i] = x})

\* C1 as stated: once the extraction has returned, getTableQueryMetadata was
\* called exactly once for every numeric table id a dashcard references, and
\* never for another id.
C1_OncePerNumericId ==
    (QueriesDone /\ result.status = "returned") =>
        /\ \A id \in ReferencedTableIds(dashboard) : Count(fetchLog, id) = 1
        /\ Range(fetchLog) \subseteq ReferencedTableIds(dashboard)

\* C1 amended: during an extraction no table id is fetched twice and only
\* referenced non-zero numeric ids are fetched; once the extraction has
\* returned, every referenced numeric id other than 0 was fetched exactly once.
C1_OncePerNonZeroId ==
    args.tool = "get_dashboard_queries" =>
        /\ \A id \in Range(fetchLog) : Count(fetchLog, id) = 1
        /\ dashboard # Undefined => Range(fetchLog) \subseteq ReferencedTableIds(dashboard) \ {0}
        /\ (pc = "done" /\ result.status = "returned") =>
               \A id \in ReferencedTableIds(dashboard) \ {0} : Count(fetchLog, id) = 1

\* two dashcards and a join reference the same table, fetched once
C1_Witness ==
    /\ QueriesDone
    /\ result.status = "returned"
    /\ Len(DashcardsOf(dashboard)) = 2
    /\ \E id \in Range(fetchLog) :
        /\ Get(QueryOf(DashcardsOf(dashboard)[1]), "source-table") = Num(id)
        /\ Get(QueryOf(DashcardsOf(dashboard)[2]), "source-table") = Num(id)
        /\ Count(fetchLog, id) = 1
    /\ \E id \in Range(fetchLog) :
        /\ Get(QueryOf(DashcardsOf(dashboard)[1]), "source-table") # Num(id)
        /\ Num(id) \in SourceTablesOf(DashcardsOf(dashboard)[1])
        /\ Num(id) \in SourceTablesOf(DashcardsOf(dashboard)[2])

\* the ids of the fields of a table
FieldIdsOf(tableId) == {Get(TableFields(tableId)[i], "id").v : i \in 1..Len(TableFields(tableId))}

\* C2: a rejected getTableQueryMetadata never makes the extraction throw; when
\* the extraction is done it has returned, every table whose fetch failed is
\* named "unknown_table_<id>" and none of its fields is in fieldLookup.
C2_FetchFailureRecovered ==
    /\ fetchErrors # <<>> => result.status # "threw"
    /\ QueriesDone =>
        \A id \in DOMAIN fetchErrors :
            /\ result.status = "returned"
            /\ tableNames[id] = Str("unknown_table_" \o ToString(id))
            /\ FieldIdsOf(id) \cap DOMAIN fieldLookup = {}

\* an extraction is done with one table fetched and another one failed
C2_Witness ==
    /\ QueriesDone
    /\ DOMAIN fetchErrors # {}
    /\ DOMAIN tableMetadata # {}
    /\ result.status = "returned"

\* the entries a fetched table contributes to fieldLookup
EntriesOf(tableId) ==
    LET fields == IF HasKey(tableMetadata[tableId], "fields")
                  THEN Get(tableMetadata[tableId], "fields").v ELSE <<>>
    IN  [fid \in {Get(fields[i], "id").v : i \in 1..Len(fields)} |->
            [name |-> Get(CHOOSE f \in Range(fields) : Get(f, "id").v = fid, "name"),
             table |-> tableNames[tableId]]]

\* C3: when some fetch has failed, every other referenced table is still
\* visited, and what is stored for it depends on its own fetch alone: its name
\* is decided by its own metadata (or is its own placeholder), its fields are
\* in fieldLookup under its name, and fieldLookup holds nothing else.
C3_FetchesIndependent ==
    (QueriesDone /\ fetchErrors # <<>>) =>
        /\ Range(fetchLog) = Range(tableIds)
        /\ DOMAIN tableNames = Range(tableIds)
        /\ \A b \in Range(tableIds) :
            IF b \in DOMAIN fetchErrors
            THEN b \notin DOMAIN tableMetadata
            ELSE /\ b \in DOMAIN tableMetadata
                 /\ tableNames[b] = qualifiedName(b, tableMetadata[b])
                 /\ \A fid \in DOMAIN EntriesOf(b) :
                        fid \in DOMAIN fieldLookup /\ fieldLookup[fid] = EntriesOf(b)[fid]
        /\ DOMAIN fieldLookup = UNION {DOMAIN EntriesOf(b) : b \in DOMAIN tableMetadata}

\* table A failed first, table B was fetched after it and has fields in the lookup
C3_Witness ==
    /\ QueriesDone
    /\ \E i, j \in 1..Len(fetchLog) :
        /\ i < j
        /\ fetchLog[i] \in DOMAIN fetchErrors
        /\ fetchLog[j] \in DOMAIN tableMetadata
        /\ DOMAIN EntriesOf(fetchLog[j]) # {}
        /\ DOMAIN EntriesOf(fetchLog[j]) \subseteq DOMAIN fieldLookup

\* C4 as stated: a transport-level error of getTableQueryMetadata is surfaced:
\* the extraction ends by throwing.
C4_TransportErrorSurfaced ==
    (QueriesDone /\ \E id \in DOMAIN fetchErrors : fetchErrors[id].kind = "Transport") =>
        result.status = "threw"

\* C4 amended: a transport-level error of getTableQueryMetadata is recovered
\* like any other fetch failure: the extraction returns, and the failure shows
\* only as the placeholder name of that table in tables_used.
C4_TransportErrorRecovered ==
    QueriesDone =>
        \A id \in DOMAIN fetchErrors :
            fetchErrors[id].kind = "Transport" =>
                /\ result.status = "returned"
                /\ Str("unknown_table_" \o ToString(id)) \in Range(Get(result.value, "tables_used").v)

\* an extraction is done after a transport error
C4_Witness ==
    /\ QueriesDone
    /\ \E id \in DOMAIN fetchErrors : fetchErrors[id].kind = "Transport"
    /\ result.status = "returned"

\* C5: when getDashboard rejects, the tool throws an Error whose message names
\* the dashboard id and ends with the message of the rejection (with "Unknown
\* error" when the rejection is not an Error), no dashboard and no result is
\* produced and getTableQueryMetadata is not called.
C5_DashboardFailureSurfaced ==
    dashboardError # NoError =>
        /\ pc = "done"
        /\ result.status = "threw"
        /\ result.message =
              (IF args.tool = "get_dashboard_queries"
               THEN "Failed to get queries for dashboard "
               ELSE "Failed to audit dashboard ")
              \o ToString(args.dashboard_id) \o ": "
              \o (IF dashboardError.instanceOfError THEN dashboardError.message ELSE "Unknown error")
        /\ fetchLog = <<>>
        /\ dashboard = Undefined

\* getDashboard rejected with an Error in audit_dashboard_filters
C5_Witness ==
    /\ pc = "done"
    /\ args.tool = "audit_dashboard_filters"
    /\ dashboardError.instanceOfError
    /\ result.status = "threw"

NonEmptyString(x) == x.k = "string" /\ x.v # ""

\* C6 as stated: the name stored for a fetched table is "table_<id>" when the
\* metadata has no name, else schema.name when the schema is non-empty, else
\* the name.
C6_QualifiedNameAsStated ==
    \A id \in DOMAIN tableMetadata :
        LET md == tableMetadata[id]
        IN  tableNames[id] =
                IF ~HasKey(md, "name") THEN Str("table_" \o ToString(id))
                ELSE IF NonEmptyString(Get(md, "schema"))
                THEN Str(Get(md, "schema").v \o "." \o Get(md, "name").v)
                ELSE Get(md, "name")

\* C6 amended: the name part is the metadata's name, or "table_<id>" when the
\* name is absent or empty; the name stored for a fetched table is
\* schema + "." + name part when the schema is non-empty, else the name part.
C6_QualifiedName ==
    \A id \in DOMAIN tableMetadata :
        LET md == tableMetadata[id]
            part == IF NonEmptyString(Get(md, "name"))
                    THEN Get(md, "name").v ELSE "table_" \o ToString(id)
        IN  tableNames[id] =
                IF NonEmptyString(Get(md, "schema"))
                THEN Str(Get(md, "schema").v \o "." \o part)
                ELSE Str(part)

\* a fetched table with a schema and no name, and one with a name and an empty schema
C6_Witness ==
    /\ \E id \in DOMAIN tableMetadata :
        /\ NonEmptyString(Get(tableMetadata[id], "schema"))
        /\ ~HasKey(tableMetadata[id], "name")
    /\ \E id \in DOMAIN tableMetadata :
        /\ Get(tableMetadata[id], "schema") = Str("")
        /\ NonEmptyString(Get(tableMetadata[id], "name"))
        /\ tableNames[id] = Get(tableMetadata[id], "name")


-----------------------------------------------------------------------------
(* Properties of resolveFieldRef *)

Resolved == pc = "resolved"

\* what resolveFieldRef rewrites: an array that starts with "field" and a number
IsFieldNode(x) ==
    /\ x.k = "array"
    /\ Len(x.v) >= 2
    /\ x.v[1] = Str("field")
    /\ x.v[2].k = "number"

\* C7: resolveFieldRef returns a value that is not an array as it is.
C7_NonArrayUnchanged ==
    (Resolved /\ ref.k # "array") => resolved = ref

\* null, a falsy scalar, went through the resolver
C7_Witness ==
    /\ Resolved
    /\ ref = Null
    /\ resolved = Null

\* C8: a field node of two or three elements becomes ["field", name, third]
\* with the same third element when the third element is an object other than
\* null (typeof "object", so an array counts), and ["field", name] when the
\* third element is absent, null or a scalar.
C8_OptionsSlot ==
    (Resolved /\ IsFieldNode(ref) /\ Len(ref.v) <= 3) =>
        /\ resolved.k = "array"
        /\ resolved.v[1] = Str("field")
        /\ resolved.v[2].k = "string"
        /\ IF Len(ref.v) = 3 /\ ref.v[3].k \in {"object", "array"}
           THEN Len(resolved.v) = 3 /\ resolved.v[3] = ref.v[3]
           ELSE Len(resolved.v) = 2

\* ["field", 10, null] became the two-element ["field", "CREATED_AT"]
C8_Witness ==
    /\ Resolved
    /\ ref = Arr(<<Str("field"), Num(10), Null>>)
    /\ resolved = Arr(<<Str("field"), Str("CREATED_AT")>>)

\* C9 as stated: the name in a rewritten field node is the name fieldLookup
\* stores for the id when the id is in fieldLookup, and "field_<id>" otherwise.
C9_NameWheneverPresent ==
    (Resolved /\ IsFieldNode(ref)) =>
        resolved.v[2] = IF ref.v[2].v \in DOMAIN fieldLookup
                        THEN fieldLookup[ref.v[2].v].name
                        ELSE Str("field_" \o ToString(ref.v[2].v))

\* C9 amended: the name in a rewritten field node is the name fieldLookup
\* stores for the id when the id is in fieldLookup with a non-empty name, and
\* "field_<id>" when the id is not in fieldLookup or its name is empty.
C9_ResolvedName ==
    (Resolved /\ IsFieldNode(ref)) =>
        resolved.v[2] = IF /\ ref.v[2].v \in DOMAIN fieldLookup
                           /\ NonEmptyString(fieldLookup[ref.v[2].v].name)
                        THEN fieldLookup[ref.v[2].v].name
                        ELSE Str("field_" \o ToString(ref.v[2].v))

\* ["field", 999] with no field 999 in the lookup became ["field", "field_999"]
C9_Witness ==
    /\ Resolved
    /\ fieldLookup # <<>>
    /\ ref = Arr(<<Str("field"), Num(999)>>)
    /\ resolved = Arr(<<Str("field"), Str("field_999")>>)

\* an array resolveFieldRef does not rewrite as a field node
IsGeneric(x) == x.k = "array" /\ ~(At(x, 0) = Str("field") /\ At(x, 1).k = "number")

\* C10: a generic array becomes an array of the same length whose elements are
\* the resolved elements of the input: elements that are not arrays are the
\* same, field nodes among the elements are rewritten, and the result does not
\* depend on which operator the array starts with.
C10_GenericArrayMapped ==
    (Resolved /\ IsGeneric(ref)) =>
        /\ resolved.k = "array"
        /\ Len(resolved.v) = Len(ref.v)
        /\ \A i \in 1..Len(ref.v) :
            /\ resolved.v[i] = resolveFieldRef(ref.v[i], fieldLookup)
            /\ ref.v[i].k # "array" => resolved.v[i] = ref.v[i]
            /\ IsFieldNode(ref.v[i]) => resolved.v[i].v[2].k = "string"
        /\ (Len(ref.v) >= 1 /\ ref.v[1].k = "string" /\ ref.v[1] # Str("field")) =>
               Tail(resolveFieldRef(Arr(<<Str("or")>> \o Tail(ref.v)), fieldLookup).v)
                   = Tail(resolved.v)

\* a field node under an operator was rewritten, the operator and the literal kept
C10_Witness ==
    /\ Resolved
    /\ ref = Arr(<<Str("and"), Arr(<<Str("field"), Num(10)>>), Num(11)>>)
    /\ resolved = Arr(<<Str("and"), Arr(<<Str("field"), Str("CREATED_AT")>>), Num(11)>>)


\* C11 as stated: an array of two or three elements that starts with "field"
\* and a number is rewritten as a field node; every other array, one of four
\* or more elements that starts with "field" and a number included, keeps its
\* length and has every element resolved.
C11_OnlyShortFieldNodesRewritten ==
    (Resolved /\ ref.k = "array") =>
        IF IsFieldNode(ref) /\ Len(ref.v) <= 3
        THEN /\ Len(resolved.v) \in {2, 3}
             /\ resolved.v[1] = Str("field")
             /\ resolved.v[2] = fieldName(ref.v[2].v, fieldLookup)
        ELSE /\ Len(resolved.v) = Len(ref.v)
             /\ \A i \in 1..Len(ref.v) : resolved.v[i] = resolveFieldRef(ref.v[i], fieldLookup)

\* C12: an array that starts with "field" and has no number in second place
\* is resolved element by element: the result has the same length, "field"
\* and the elements that are not arrays stay, the arrays among the elements
\* are resolved.
C12_MalformedFieldNodeGeneric ==
    (Resolved /\ ref.k = "array" /\ At(ref, 0) = Str("field") /\ At(ref, 1).k # "number") =>
        /\ resolved.k = "array"
        /\ Len(resolved.v) = Len(ref.v)
        /\ resolved.v[1] = Str("field")
        /\ \A i \in 2..Len(ref.v) :
            IF ref.v[i].k = "array"
            THEN resolved.v[i] = resolveFieldRef(ref.v[i], fieldLookup)
            ELSE resolved.v[i] = ref.v[i]

\* ["field", "NAME", ["field", 10, null]] kept its name, the inner node was rewritten
C12_Witness ==
    /\ Resolved
    /\ ref = Arr(<<Str("field"), Str("NAME"), FieldNode(10)>>)
    /\ resolved = Arr(<<Str("field"), Str("NAME"), Arr(<<Str("field"), Str("CREATED_AT")>>)>>)


-----------------------------------------------------------------------------
(* resolveMbql *)

ResolvedMbql == pc = "resolvedMbql"

\* the members resolveMbql knows
SupportedKeys ==
    {"source-table", "aggregation", "breakout", "filter", "order-by", "joins", "fields",
     "expressions", "limit"}

\* C13: the object resolveMbql returns has only top-level keys that are present
\* on the input query and are in the supported list: no key is invented and
\* every other input member, source-query for one, is dropped
C13_OnlySupportedInputKeys ==
    ResolvedMbql =>
        /\ resolved.k = "object"
        /\ DOMAIN resolved.v \subseteq (DOMAIN ref.v \cap SupportedKeys)

C13_Witness ==
    /\ ResolvedMbql
    /\ HasKey(ref, "source-query")
    /\ ~HasKey(resolved, "source-query")
    /\ DOMAIN resolved.v = DOMAIN ref.v \ {"source-query"}
    /\ Cardinality(DOMAIN resolved.v) >= 8

\* C14 as stated: whenever the input query has a limit member, the output has
\* a limit member with the identical value, for every numeric limit
C14_LimitCopied ==
    (ResolvedMbql /\ HasKey(ref, "limit")) =>
        /\ HasKey(resolved, "limit")
        /\ Get(resolved, "limit") = Get(ref, "limit")

\* the entry of tableNames for an id, "table_" + id when there is none
TableNameOf(id) ==
    IF id \in DOMAIN tableNames THEN tableNames[id]
    ELSE Str("table_" \o TemplateString(Num(id)))

\* C15 as stated: whenever the input query has a source-table member, the
\* output has a source-table member, the tableNames entry for that id when one
\* exists and "table_" + id when the id has no entry
C15_SourceTableResolved ==
    (ResolvedMbql /\ HasKey(ref, "source-table")) =>
        /\ HasKey(resolved, "source-table")
        /\ LET st == Get(ref, "source-table")
           IN  Get(resolved, "source-table") =
                   (IF st.k = "number" THEN TableNameOf(st.v)
                    ELSE Str("table_" \o TemplateString(st)))

\* C16: joins are mapped one to one and in order; each output join keeps every
\* passthrough member of the input join unchanged, has source-table replaced by
\* the resolved table name when it was a number and left as it is when it was
\* not, and has condition replaced by resolveFieldRef(condition)
C16_JoinsMapped ==
    (ResolvedMbql /\ Get(ref, "joins").k = "array") =>
        LET joins == Get(ref, "joins").v
            out == Get(resolved, "joins")
        IN  /\ out.k = "array"
            /\ Len(out.v) = Len(joins)
            /\ \A i \in 1..Len(joins) :
                LET j == joins[i]
                    o == out.v[i]
                    st == Get(j, "source-table")
                IN  /\ o.k = "object"
                    /\ DOMAIN o.v = DOMAIN j.v \cup {"source-table", "condition"}
                    /\ \A key \in DOMAIN j.v \ {"source-table", "condition"} :
                           o.v[key] = j.v[key]
                    /\ o.v["source-table"] = (IF st.k = "number" THEN TableNameOf(st.v) ELSE st)
                    /\ o.v["condition"] = resolveFieldRef(Get(j, "condition"), fieldLookup)

C16_Witness ==
    /\ ResolvedMbql
    /\ Get(ref, "joins") = QueryJoins
    /\ LET out == Get(resolved, "joins").v
       IN  /\ Len(out) = 3
           /\ out[1].v["source-table"] = Str("people")
           /\ out[1].v["strategy"] = Str("left-join")
           /\ out[1].v["condition"] =
                  Arr(<<Str("="), Arr(<<Str("field"), Str("field_10")>>),
                        Arr(<<Str("field"), Str("AMOUNT"), Obj("join-alias" :> Str("P"))>>)>>)
           /\ out[2].v["source-table"] = Str("table_0")
           /\ out[3].v["source-table"] = Str("card__6")
           /\ out[3].v["condition"] = Undefined
           /\ out[3].v["fields"] = Str("all")


-----------------------------------------------------------------------------
(* get_dashboard_queries: the summaries and tables_used *)

QueriesReturned == QueriesDone /\ result.status = "returned"

\* the summaries of the returned text
SummariesOf(r) == Get(r.value, "cards").v

\* the mbql member of the returned text for a dashcard with a structured query
ExpectedMbql(dc) ==
    stringify(resolveMbql(OrElse(Get(OrElse(Get(OrElse(Get(dc, "card"), EmptyObject),
                                               "dataset_query"), EmptyObject),
                                    "query"), EmptyObject),
                          tableNames, fieldLookup))

\* the kind of a dashcard whose card_id is none of the given values
KindOf(dc, virtualCardIds) ==
    IF Get(dc, "card_id") \in virtualCardIds THEN "virtual"
    ELSE IF OptGet(OptGet(Get(dc, "card"), "dataset_query"), "type") = Str("native") THEN "native"
    ELSE "mbql"

\* one summary per dashcard in dashcard order, each of the kind of its dashcard:
\* a virtual summary has neither sql nor mbql, a native summary has no mbql, a
\* structured summary carries the resolved query
SummariesClassified(virtualCardIds) ==
    LET dcs == DashcardsOf(dashboard)
        cards == SummariesOf(result)
    IN  /\ Len(cards) = Len(dcs)
        /\ \A i \in 1..Len(dcs) :
            LET kind == KindOf(dcs[i], virtualCardIds)
            IN  /\ Get(cards[i], "dashcard_id") = Get(dcs[i], "id")
                /\ Get(cards[i], "query_type") = Str(kind)
                /\ kind = "virtual" =>
                       (~HasKey(cards[i], "sql") /\ ~HasKey(cards[i], "mbql"))
                /\ kind = "native" => ~HasKey(cards[i], "mbql")
                /\ kind = "mbql" =>
                       (~HasKey(cards[i], "sql") /\ Get(cards[i], "mbql") = ExpectedMbql(dcs[i]))

\* C17 as stated: one summary per dashcard, in dashcard order; virtual when
\* card_id is absent or null, otherwise native when dataset_query.type is
\* "native", otherwise structured with the resolved query
C17_ClassifiedAsStated ==
    QueriesReturned => SummariesClassified({Undefined, Null})

\* C17: one summary per dashcard, in dashcard order; virtual when card_id is
\* absent, null or 0, otherwise native when dataset_query.type is "native",
\* otherwise structured with the resolved query; a virtual dashcard is never
\* reported as native or structured even if it carries a dataset_query
C17_Classified ==
    QueriesReturned => SummariesClassified({Undefined, Null, Num(0)})

C17_Witness ==
    /\ QueriesReturned
    /\ DashcardsOf(dashboard) = <<Dashcard(VirtualWithQueryDashcard, 1), Dashcard(OrdersDashcard, 2)>>
    /\ LET cards == SummariesOf(result)
       IN  /\ Len(cards) = 2
           /\ Get(cards[1], "query_type") = Str("virtual")
           /\ Get(cards[1], "text") = Str("Heading")
           /\ Get(cards[2], "query_type") = Str("mbql")
           /\ Get(Get(cards[2], "mbql"), "source-table") = Str("public.orders")

\* C18 as stated: the sql member of the summary of a native card is the
\* dataset_query.native.query string of the card, whatever the string holds
C18_SqlIdentical ==
    QueriesReturned =>
        LET dcs == DashcardsOf(dashboard)
            cards == SummariesOf(result)
        IN  \A i \in 1..Len(dcs) :
                LET query == OptGet(OptGet(OptGet(Get(dcs[i], "card"), "dataset_query"),
                                           "native"), "query")
                IN  (Get(cards[i], "query_type") = Str("native") /\ query.k = "string") =>
                        Get(cards[i], "sql") = query

\* C19: tables_used is strictly ascending in the order of the code units of
\* its strings, so it is sorted and has no duplicates, and its set of elements
\* is the set of values of tableNames, the placeholders of the tables whose
\* fetch failed included
C19_TablesUsedSortedSet ==
    QueriesReturned =>
        LET used == Get(result.value, "tables_used").v
        IN  /\ \A i \in 1..(Len(used) - 1) : stringLess(used[i].v, used[i + 1].v)
            /\ Range(used) = {tableNames[t] : t \in DOMAIN tableNames}

C19_Witness ==
    /\ QueriesReturned
    /\ tableNames = (1 :> Str("orders")) @@ (2 :> Str("unknown_table_2")) @@ (3 :> Str("orders"))
    /\ Get(result.value, "tables_used") = Arr(<<Str("orders"), Str("unknown_table_2")>>)


-----------------------------------------------------------------------------
(* audit_dashboard_filters *)

AuditReturned ==
    pc = "done" /\ args.tool = "audit_dashboard_filters" /\ result.status = "returned"

\* the ids of the parameters of a dashboard, in dashboard order
ParameterIdsOf(d) ==
    IF HasKey(d, "parameters")
    THEN [i \in 1..Len(Get(d, "parameters").v) |-> Get(Get(d, "parameters").v[i], "id")]
    ELSE <<>>

\* the parameter mappings of a dashcard
MappingsOf(dc) ==
    IF HasKey(dc, "parameter_mappings") THEN Get(dc, "parameter_mappings").v ELSE <<>>

\* s is made of elements of t, without repetition and in the order of t
InOrderOf(s, t) ==
    \E pos \in [1..Len(s) -> 1..Len(t)] :
        /\ \A i \in 1..Len(s) : t[pos[i]] = s[i]
        /\ \A i \in 1..(Len(s) - 1) : pos[i] < pos[i + 1]

\* C20: for every dashcard the audit reports connected_params as the
\* parameter_id of each of its parameter mappings in order, empty when there
\* are none, and missing_params as exactly the parameter ids of the dashboard
\* that are not in connected_params, in the order of the dashboard parameters
C20_ConnectedAndMissingParams ==
    AuditReturned =>
        LET dcs == DashcardsOf(dashboard)
            all == Get(result.value, "all_cards").v
            pids == ParameterIdsOf(dashboard)
        IN  /\ Len(all) = Len(dcs)
            /\ \A i \in 1..Len(dcs) :
                LET connected == Get(all[i], "connected_params").v
                    missing == Get(all[i], "missing_params").v
                    mappings == MappingsOf(dcs[i])
                IN  /\ connected = [j \in 1..Len(mappings) |-> Get(mappings[j], "parameter_id")]
                    /\ Range(missing) = Range(pids) \ Range(connected)
                    /\ InOrderOf(missing, pids)

C20_Witness ==
    /\ AuditReturned
    /\ DashcardsOf(dashboard) = <<Dashcard(OrdersDashcard, 1), Dashcard(PeopleOrdersDashcard, 2)>>
    /\ LET all == Get(result.value, "all_cards").v
       IN  /\ Get(all[1], "connected_params") = Arr(<<Str("p1")>>)
           /\ Get(all[1], "missing_params") = Arr(<<Str("p2")>>)
           /\ Get(all[2], "connected_params") = Arr(<<Str("p2"), Str("p1")>>)
           /\ Get(all[2], "missing_params") = Arr(<<>>)
    /\ \E i \in 1..Len(Get(result.value, "cards_needing_attention").v) :
           Get(Get(result.value, "cards_needing_attention").v[i], "dashcard_id") = Num(101)

\* the parameter_id of a mapping as the messages print it
ParameterNameOf(m) == TemplateString(Get(m, "parameter_id"))

\* the target of the mapping is absent, or a sequence headed by "dimension" with
\* no element that is an object with a stage-number key
IsFaultyMapping(m) ==
    LET target == Get(m, "target")
    IN  \/ target \in {Undefined, Null}
        \/ /\ target.k = "array"
           /\ Len(target.v) > 0
           /\ target.v[1] = Str("dimension")
           /\ \A i \in 1..Len(target.v) :
                  ~(target.v[i].k = "object" /\ "stage-number" \in DOMAIN target.v[i].v)

\* the index of the k-th faulty mapping
FaultyIndex(mappings, k) ==
    CHOOSE j \in 1..Len(mappings) :
        /\ IsFaultyMapping(mappings[j])
        /\ Cardinality({x \in 1..j : IsFaultyMapping(mappings[x])}) = k

\* the text starts with "Parameter '<name>'"
NamesParameter(text, name) ==
    LET prefix == "Parameter '" \o name \o "'"
    IN  Len(text) >= Len(prefix) /\ SubSeq(text, 1, Len(prefix)) = prefix

NeedsAttention(audit) ==
    Len(Get(audit, "missing_params").v) > 0 \/ Len(Get(audit, "errors").v) > 0

\* the index in all of the k-th card that needs attention
AttentionIndex(all, k) ==
    CHOOSE j \in 1..Len(all) :
        /\ NeedsAttention(all[j])
        /\ Cardinality({x \in 1..j : NeedsAttention(all[x])}) = k

\* C22: all_cards has one entry per dashcard in order, cards_needing_attention
\* is exactly the subsequence of all_cards whose missing_params or errors is
\* not empty, and cards_with_issues is the length of cards_needing_attention
C22_CardsNeedingAttention ==
    AuditReturned =>
        LET dcs == DashcardsOf(dashboard)
            all == Get(result.value, "all_cards").v
            needing == Get(result.value, "cards_needing_attention").v
        IN  /\ Len(all) = Len(dcs)
            /\ \A i \in 1..Len(dcs) : Get(all[i], "dashcard_id") = Get(dcs[i], "id")
            /\ Len(needing) = Cardinality({j \in 1..Len(all) : NeedsAttention(all[j])})
            /\ \A k \in 1..Len(needing) : needing[k] = all[AttentionIndex(all, k)]
            /\ Get(result.value, "cards_with_issues") = Num(Len(needing))

C22_Witness ==
    /\ AuditReturned
    /\ DashcardsOf(dashboard) =
           <<Dashcard(EmptySqlDashcard, 1), Dashcard(VirtualDashcard, 2)>>
    /\ Get(result.value, "cards_with_issues") = Num(1)
    /\ LET needing == Get(result.value, "cards_needing_attention").v
       IN  /\ Len(needing) = 1
           /\ Get(needing[1], "dashcard_id") = Num(102)
           /\ Get(needing[1], "missing_params") = Arr(<<Str("p1"), Str("p2")>>)
           /\ Get(needing[1], "errors") = Arr(<<>>)

\* a report without the dashboard_id it echoes from the arguments
WithoutDashboardId(report) ==
    [key \in DOMAIN report.v \ {"dashboard_id"} |-> report.v[key]]

\* C23: an audit fetches nothing but the dashboard: getTableQueryMetadata is
\* never called while audit_dashboard_filters runs, and the report is decided
\* by the dashboard: it echoes the requested id and is otherwise the same for
\* every audit of an equal dashboard
C23_AuditFetchesNothing ==
    args.tool = "audit_dashboard_filters" =>
        /\ pc # "getTableQueryMetadata"
        /\ fetchLog = <<>>
        /\ pending = <<>>
        /\ tableMetadata = <<>>
        /\ AuditReturned =>
               /\ Get(result.value, "dashboard_id") = Num(args.dashboard_id)
               /\ \A id \in DashboardIds :
                      WithoutDashboardId(result.value) =
                          WithoutDashboardId(auditResult([args EXCEPT !.dashboard_id = id],
                                                         dashboard))

C23_Witness ==
    /\ AuditReturned
    /\ DashcardsOf(dashboard) =
           <<Dashcard(OrdersPeopleDashcard, 1), Dashcard(SalesDashcard, 2)>>
    /\ fetchLog = <<>>
    /\ Get(Get(result.value, "all_cards").v[1], "source_table") = Num(1)


-----------------------------------------------------------------------------
(* both tools: the dashboard they are given *)

\* C24: neither get_dashboard_queries nor audit_dashboard_filters changes the
\* dashboard it is given, its dashcards, cards and queries included: the
\* dashboard a call holds is one getDashboard has delivered, it is set when
\* getDashboard resolves, stays equal to that until the call is over, and the
\* resolved queries are in the result only
C24_DashboardNotMutated ==
    /\ [](dashboard \in Dashboards \cup {Undefined})
    /\ [][dashboard' # dashboard =>
              \/ pc = "getDashboard" /\ dashboard = Undefined
              \/ pc = "done" /\ dashboard' = Undefined]_vars

C24_Witness ==
    /\ QueriesReturned
    /\ DashcardsOf(dashboard) = <<Dashcard(OrdersDashcard, 1), Dashcard(SalesDashcard, 2)>>
    /\ Get(QueryOf(DashcardsOf(dashboard)[1]), "source-table") = Num(1)
    /\ Get(Get(SummariesOf(result)[1], "mbql"), "source-table") = Str("public.orders")
    /\ Get(Get(SummariesOf(result)[1], "mbql"), "filter") =
           Arr(<<Str("="), Arr(<<Str("field"), Str("CREATED_AT")>>), Str("active")>>)


-----------------------------------------------------------------------------
(* get_dashboard_queries: the lifetime of the tables and the order of the steps *)

\* C25: tableNames and fieldLookup are not shared across calls: between two
\* calls and until the dashboard of a call has arrived the tables are empty,
\* nothing of a call survives its return, and a call that returns has fetched
\* every table id it has collected in this call, has an entry of tableNames
\* for each from this call's own fetches, and a fieldLookup built from this
\* call's own metadata
C25_TablesPerCall ==
    /\ pc \in {"idle", "getDashboard"} =>
           /\ tableIds = <<>> /\ pending = <<>> /\ fetchLog = <<>> /\ fetchErrors = <<>>
           /\ tableMetadata = <<>> /\ tableNames = <<>> /\ fieldLookup = <<>>
           /\ dashboard = Undefined /\ result = NoResult
    /\ QueriesReturned =>
           /\ Range(fetchLog) = Range(tableIds)
           /\ \A id \in Range(tableIds) : Count(fetchLog, id) = 1
           /\ DOMAIN tableNames = Range(fetchLog)
           /\ DOMAIN tableMetadata \cup DOMAIN fetchErrors = Range(fetchLog)
           /\ DOMAIN tableMetadata \cap DOMAIN fetchErrors = {}
           /\ \A id \in DOMAIN tableMetadata :
                  /\ tableMetadata[id] \in TableMetadata(id)
                  /\ tableNames[id] = qualifiedName(id, tableMetadata[id])
           /\ \A id \in DOMAIN fetchErrors : tableNames[id] = unknownTableName(id)
           /\ fieldLookup = buildFieldLookup(<<>>, tableMetadata, tableNames)

C25_Witness ==
    /\ QueriesReturned
    /\ fetchLog = <<1, 2>>
    /\ DOMAIN tableMetadata = {2}
    /\ DOMAIN fetchErrors = {1}
    /\ tableNames = (1 :> Str("unknown_table_1")) @@ (2 :> Str("people"))
    /\ DOMAIN fieldLookup = {20}

\* C26: within one extraction every getTableQueryMetadata call has completed,
\* with success or failure, and tableNames and fieldLookup are fully built
\* before the first card is resolved: while a fetch is awaited or left to do
\* there is no summary and no fieldLookup, and the summaries of the result are
\* resolved against the tables of all collected ids
C26_TablesBuiltBeforeCards ==
    args.tool = "get_dashboard_queries" =>
        /\ (pc = "getTableQueryMetadata" \/ pending # <<>>) =>
               (result = NoResult /\ fieldLookup = <<>>)
        /\ result.status = "returned" =>
               /\ pending = <<>>
               /\ fetchLog = tableIds
               /\ DOMAIN tableNames = Range(tableIds)
               /\ DOMAIN tableMetadata \cup DOMAIN fetchErrors = Range(tableIds)
               /\ \A i \in 1..Len(DashcardsOf(dashboard)) :
                      Get(SummariesOf(result)[i], "query_type") = Str("mbql") =>
                          Get(SummariesOf(result)[i], "mbql") =
                              ExpectedMbql(DashcardsOf(dashboard)[i])

C26_Witness ==
    /\ QueriesReturned
    /\ DashcardsOf(dashboard) = <<Dashcard(OrdersPeopleDashcard, 1)>>
    /\ fetchLog = <<1, 2>>
    /\ DOMAIN tableMetadata = {1, 2}
    /\ LET join == Get(Get(SummariesOf(result)[1], "mbql"), "joins").v[1]
       IN  /\ Get(join, "source-table") = Str("people")
           /\ Get(join, "condition") =
                  Arr(<<Str("="), Arr(<<Str("field"), Str("CREATED_AT")>>),
                        Arr(<<Str("field"), Str("AMOUNT"), Obj("join-alias" :> Str("P"))>>)>>)


-----------------------------------------------------------------------------
(* search_dashboards *)

SearchReturned ==
    pc = "done" /\ args.tool = "search_dashboards" /\ result.status = "returned"

\* the name or the description of the dashboard contains the query, letter
\* case set aside
ContainsQuery(d, query) ==
    \E key \in {"name", "description"} :
        /\ Get(d, key).k = "string"
        /\ includes(toLowerCase(Get(d, key).v), toLowerCase(query))

\* C27 as stated: search_dashboards returns, in their original order, only
\* dashboards whose name or description contains the query case-insensitively,
\* and when limit is given the number of returned dashboards never exceeds it
C27_MatchesWithinLimit ==
    SearchReturned =>
        /\ InOrderOf(result.value.v, dashboard.v)
        /\ \A i \in 1..Len(result.value.v) : ContainsQuery(result.value.v[i], args.query)
        /\ args.limit # Undefined => Len(result.value.v) <= args.limit.v


-----------------------------------------------------------------------------
(* parseToolFilterOptions *)

Parsed == pc = "parsed"

\* the arguments of a command line, as a set
ArgumentsOf(argv) == {argv[i] : i \in 3..Len(argv)}

\* C28: parseToolFilterOptions returns mode 'all' whenever the arguments include
\* --all, otherwise 'write' whenever they include --write, otherwise
\* 'essential', with or without --essential; the result is the same for every
\* command line with the same flags in another order or repeated
C28_ModeByPriority ==
    Parsed =>
        /\ resolved.mode =
               (IF "--all" \in ArgumentsOf(ref) THEN "all"
                ELSE IF "--write" \in ArgumentsOf(ref) THEN "write"
                ELSE "essential")
        /\ \A other \in CommandLines :
               ArgumentsOf(other) = ArgumentsOf(ref) => parseToolFilterOptions(other) = resolved

C28_Witness ==
    /\ Parsed
    /\ ref = <<"node", "server.js", "--write", "--essential", "--all">>
    /\ resolved = [mode |-> "all"]


-----------------------------------------------------------------------------
(* resolveFieldRef applied twice *)

\* C29 as stated: resolveFieldRef(resolveFieldRef(t)) = resolveFieldRef(t) for
\* every query tree t, the field names of the lookup being strings
C29_IdempotentOnEveryTree ==
    Resolved => resolveFieldRef(resolved, fieldLookup) = resolved

\* no node of the tree that is rewritten as a field node has a sequence for its
\* third element
RECURSIVE OptionsAreNoSequence(_)
OptionsAreNoSequence(t) ==
    IF t.k # "array" THEN TRUE
    ELSE IF At(t, 0) = Str("field") /\ At(t, 1).k = "number"
    THEN At(t, 2).k # "array"
    ELSE \A i \in 1..Len(t.v) : OptionsAreNoSequence(t.v[i])

\* C29: resolveFieldRef(resolveFieldRef(t)) = resolveFieldRef(t) for every query
\* tree t in which no field node has a sequence as its third element: a
\* resolved field node has a string for its second element and is only copied
C29_Idempotent ==
    (Resolved /\ OptionsAreNoSequence(ref)) =>
        resolveFieldRef(resolved, fieldLookup) = resolved

C29_Witness ==
    /\ Resolved
    /\ ref = Arr(<<Str("and"), Arr(<<Str("field"), Num(10)>>),
                   Arr(<<Str("field"), Num(11), Str("x")>>)>>)
    /\ resolved = Arr(<<Str("and"), Arr(<<Str("field"), Str("CREATED_AT")>>),
                        Arr(<<Str("field"), Str("field_11")>>)>>)
    /\ resolveFieldRef(resolved, fieldLookup) = resolved


-----------------------------------------------------------------------------
(* get_dashboard_queries: the table names of the summaries and tables_used *)

\* the names the summary of dashcard i gives for the source-table of the query
\* and of its joins where the dashcard has a number that is not in Excluded
ResolvedTableNames(i, Excluded) ==
    LET dc == DashcardsOf(dashboard)[i]
        query == OptGet(OptGet(OptGet(dc, "card"), "dataset_query"), "query")
        mbql == Get(SummariesOf(result)[i], "mbql")
        st == OptGet(query, "source-table")
        joins == OptGet(query, "joins")
    IN  (IF st.k = "number" /\ st.v \notin Excluded /\ HasKey(mbql, "source-table")
         THEN {Get(mbql, "source-table")} ELSE {})
        \cup (IF joins.k = "array"
              THEN {Get(Get(mbql, "joins").v[j], "source-table") :
                       j \in {n \in 1..Len(joins.v) :
                                 /\ OptGet(joins.v[n], "source-table").k = "number"
                                 /\ OptGet(joins.v[n], "source-table").v \notin Excluded}}
              ELSE {})

StructuredSummaries ==
    {i \in 1..Len(DashcardsOf(dashboard)) :
        Get(SummariesOf(result)[i], "query_type") = Str("mbql")}

TablesUsedOf(r) == Range(Get(r.value, "tables_used").v)

\* C30 as stated: every table name that is the resolved source-table of the
\* query of a structured card or of one of its joins, the input being a numeric
\* table id, is an element of tables_used
C30_EveryResolvedNameUsed ==
    QueriesReturned =>
        \A i \in StructuredSummaries : ResolvedTableNames(i, {}) \subseteq TablesUsedOf(result)

\* C30: every table name that is the resolved source-table of the query of a
\* structured card or of one of its joins, the input being a numeric table id
\* other than 0, is an element of tables_used; a name of a summary that is not
\* in tables_used is "table_0", for a join on the table id 0, which is never
\* fetched
C30_ResolvedNamesUsed ==
    QueriesReturned =>
        \A i \in StructuredSummaries :
            /\ ResolvedTableNames(i, {0}) \subseteq TablesUsedOf(result)
            /\ ResolvedTableNames(i, {}) \ TablesUsedOf(result) \subseteq {Str("table_0")}

C30_Witness ==
    /\ QueriesReturned
    /\ DashcardsOf(dashboard) =
           <<Dashcard(OrdersPeopleDashcard, 1), Dashcard(ZeroTableDashcard, 2)>>
    /\ TablesUsedOf(result) = {Str("people"), Str("table_1")}
    /\ ResolvedTableNames(1, {}) = {Str("people"), Str("table_1")}
    /\ ResolvedTableNames(2, {0}) = {}
    /\ ResolvedTableNames(2, {}) = {Str("table_0")}
====
